---- MODULE Spec2Model ----
(***************************************************************************)
(* Delivery pipeline of guacamole-lite-server: the upload queue of         *)
(* RecordingManager, the notification queue of WebhookManager, the calls   *)
(* of S3Uploader.upload and sendWebhook they make, and handleSessionClose  *)
(* and stop of GuacamoleLiteServer.                                        *)
(*                                                                         *)
(* Execution model: one JavaScript event loop.  An async function runs     *)
(* without interruption up to its next await, so every action below is one *)
(* such run: from an event (a call, a settled promise, a fired timer) to   *)
(* the next suspension of the code it resumes.                             *)
(*                                                                         *)
(* Time: timestamps are kept relative to the current instant, in seconds   *)
(* (1 unit = 1000 ms).  DateNow is 0, a stored nextRetry is the time still *)
(* to pass before it is reached, and Tick moves every timestamp and every  *)
(* pending timer one second closer.                                        *)
(***************************************************************************)
EXTENDS Integers, Sequences, FiniteSets, TLC

\* ---- bounds of the model ------------------------------------------------
\* total number of tasks handed to the two queues in one behaviour
MaxTasks == 3

\* number of tasks a caller may have pushed on each queue before the first
\* call of its drain operation (specification SpecPushed)
MaxPushed == 1

\* number of recordings compressed side by side (specification SpecCompress)
MaxRecordings == 2

\* the largest maxRetries a function is wrapped with (specification SpecWrapper)
MaxRetriesBound == 3

\* the depth to which the objects of a payload are nested (specification
\* SpecSanitize)
MaxDepth == 3

\* the number of pieces of a key template (specification SpecKey)
MaxPieces == 3

\* the largest ceiling of a notification task (specification SpecBackoff)
MaxCeiling == 7

\* ---- program constants (seconds) ----------------------------------------
UploadMaxAttempts == 3
WebhookMaxAttempts == 3
UploadRetryDelay == 5
PollDelay == 1
BackoffBase == 1
BackoffCap == 30
CleanupPollDelay == 1
WrapperMaxRetries == 3

VARIABLES
  uploads,        \* the upload task objects: id -> [attempts, maxAttempts, connection]
  uploadQueue,    \* RecordingManager.uploadQueue: sequence of task ids
  rmProcessing,   \* RecordingManager.processing
  uploadLoops,    \* suspended activations of processUploadQueue
  webhooks,       \* the webhook task objects: id -> [attempts, maxAttempts, nextRetry, payload]
  queue,          \* WebhookManager.queue: sequence of task ids
  whProcessing,   \* WebhookManager.processing
  whLoops,        \* suspended activations of processQueue
  uploadCalls,    \* id -> number of calls of uploadRecording for the task
  sendCalls,      \* id -> number of calls of sendWebhook for the task
  uploaded,       \* ids whose uploadRecording call resolved
  uploadDropped,  \* ids dropped at 'Max upload attempts reached'
  sent,           \* ids whose sendWebhook call resolved
  sendDropped,    \* ids dropped at 'Max webhook attempts reached'
  stopPc,         \* position of GuacamoleLiteServer.stop()
  serverRunning,  \* the tunnel server (this.server) is running
  connectionsOpen,\* connections of this.connections are still open
  rmCleanup,      \* state of the RecordingManager.cleanup() call of stop()
  whCleanup,      \* state of the WebhookManager.cleanup() call of stop()
  cleanupTimer,   \* remaining time of the pending cleanup() poll timer
  config,         \* the configuration object shared by the server and its managers
  s3Initialized,  \* S3Uploader.initialized
  enabled,        \* WebhookManager.enabled
  s3Uploader,     \* RecordingManager.s3Uploader is an uploader (not null)
  sessions,       \* connection -> [pc: position of handleSessionOpen, of
                  \*                    handleSessionClose or of handleRecordingEnd,
                  \*                inMap: the connection is in this.connections,
                  \*                tokenBucket: connection.token.s3.bucket,
                  \*                recordingExists: the recording file exists,
                  \*                returned: what handleRecordingEnd returned]
  unlinked,       \* ids of the upload tasks whose file was removed by fs.unlink
  transfers,      \* id -> number of calls of performUpload for the task
  uploadDest,     \* <<id, n, bucket>>: the bucket resolved by the n-th call of
                  \* S3Uploader.upload for task id, NoBucket if it threw before
  sendUrl,        \* <<id, n, url>>: the URL read by the n-th call of sendWebhook
  lastResponse,   \* the outcome of the call of axios that settled last:
                  \* [webhook, call, status], status TransportError if it rejected
  files,          \* the paths of the files that exist in the recordings directory
  compress,       \* recording -> the call of compressRecording for its file:
                  \* [pc, returned: the path returned, transforms: transforms
                  \*  started, finished: the output was written to its end,
                  \*  failed: the catch block ran or an error was thrown]
  call,           \* a call of a function without state: [fn, args, result, ...]
  wrapper         \* a call of a function made by createRetryWrapper: its
                  \* arguments maxRetries and baseDelay, its locals attempt and
                  \* lastError, its position, and what was seen of it (calls
                  \* of fn, time waited since the last one, errors thrown by
                  \* fn, the result returned, the error thrown)

rmVars == <<uploads, uploadQueue, rmProcessing, uploadLoops, uploadCalls,
            uploaded, uploadDropped, unlinked, transfers, uploadDest>>
whVars == <<webhooks, queue, whProcessing, whLoops, sendCalls, sent, sendDropped,
            sendUrl>>
stopVars == <<stopPc, serverRunning, connectionsOpen, rmCleanup, whCleanup,
              cleanupTimer>>
\* what the constructors compute from the configuration, once
fixedVars == <<s3Initialized, enabled, s3Uploader>>
\* what is recorded of the calls observed one at a time
obsVars == <<lastResponse, files, compress, wrapper, call>>
envVars == <<config, fixedVars, sessions, obsVars>>
vars == <<rmVars, whVars, stopVars, envVars>>

\* ---- helpers -------------------------------------------------------------
DateNow == 0

Dec(n) == IF n > 0 THEN n - 1 ELSE 0

Min(a, b) == IF a < b THEN a ELSE b

RemoveAt(s, i) == SubSeq(s, 1, i - 1) \o SubSeq(s, i + 1, Len(s))

Range(s) == {s[i] : i \in 1..Len(s)}

TasksCreated == Len(uploads) + Len(webhooks)

\* ---- connections, configuration, destinations ---------------------------

\* the connections of the server: handleSessionClose hands up to three tasks
\* to the queues for each
Sessions == 1..(MaxTasks \div 3)

\* an empty bucket name: token.s3.bucket or s3_default_bucket not set
NoBucket == ""

\* mutant: the default bucket is preferred to the bucket of the token
GetBucketDefaultFirst(connection, cfg) ==
  IF cfg.s3_default_bucket # NoBucket
  THEN cfg.s3_default_bucket
  ELSE connection.tokenBucket

\* S3Uploader.getBucket; the result NoBucket stands for its throw
GetBucket(connection, cfg) ==
  IF connection.tokenBucket # NoBucket
  THEN connection.tokenBucket
  ELSE cfg.s3_default_bucket

\* S3Uploader.upload up to its first await, for task id of heap: the bucket
\* it resolves, NoBucket if it throws before (uploader not initialized, file
\* not found, no bucket)
AttemptBucket(heap, id) ==
  IF s3Initialized /\ id \notin unlinked
  THEN GetBucket(sessions[heap[id].connection], config)
  ELSE NoBucket

\* the bucket resolved by the call of S3Uploader.upload now in progress for
\* task id
CurrentBucket(id) == CHOOSE b \in {d[3] : d \in {e \in uploadDest : e[1] = id /\ e[2] = uploadCalls[id]}} : TRUE

\* mutant: the wrapper calls fn once and never retries
WrapperCallsNoRetry(outcomes, attempt) == attempt + 1

\* Utils.createRetryWrapper: the number of calls of fn made by the loop from
\* iteration attempt on, where outcomes[k] tells whether the k-th call
\* succeeds
RECURSIVE WrapperCalls(_, _)
WrapperCalls(outcomes, attempt) ==
  IF outcomes[attempt + 1] \/ attempt = WrapperMaxRetries
  THEN attempt + 1
  ELSE WrapperCalls(outcomes, attempt + 1)

\* the outcomes of the calls one wrapped call may make
WrapperOutcomes == [1..(WrapperMaxRetries + 1) -> BOOLEAN]

\* Utils.createRetryWrapper: the wrapped call resolves if the last call of fn
\* it makes succeeds
WrapperResolves(outcomes) == outcomes[WrapperCalls(outcomes, 0)]

\* the numbers of calls of performUpload a call of S3Uploader.upload that
\* resolves may have made
ResolvedTransfers ==
  {WrapperCalls(outcomes, 0) : outcomes \in {o \in WrapperOutcomes : WrapperResolves(o)}}

\* mutant: the file is removed whatever the configuration says
DeletesLocalAlways(cfg) == TRUE

\* uploadRecording: the test of recordings_delete_local_after_upload
DeletesLocal(cfg) == cfg.recordings_delete_local_after_upload

\* ---- RecordingManager: the upload queue ----------------------------------

\* queueForUpload: the task object pushed on the queue
NewUpload(c) == [attempts |-> 0, maxAttempts |-> UploadMaxAttempts, connection |-> c]

\* mutant: the entry test forgets the processing flag
ReturnsEarlyNoFlag(processing, q) == Len(q) = 0

\* processUploadQueue: the early return at its entry
ReturnsEarly(processing, q) == processing \/ Len(q) = 0

\* mutant: the ceiling test lets a task at the ceiling back on the queue
MayRetryInclusive(task) == task.attempts <= task.maxAttempts

\* mutant: the ceiling test gives up one attempt early
MayRetryOffByOne(task) == task.attempts < task.maxAttempts - 1

\* processUploadQueue: the test that decides between retry and abandonment
MayRetry(task) == task.attempts < task.maxAttempts

\* mutant: the failed task is put back at the head, to be retried in place
RequeueAtHead(q, id) == <<id>> \o q

\* processUploadQueue: the failed task goes back on the queue
Requeue(q, id) == Append(q, id)

\* processUploadQueue: the pause after a failed attempt
UploadBackoff(task) == UploadRetryDelay * task.attempts

\* mutant: the loop returns without resetting the processing flag
UploadLoopNextKeepsFlag(ls, i, q, heap, calls, p) ==
  IF Len(q) > 0
  THEN /\ uploadQueue' = Tail(q)
       /\ uploadLoops' = [ls EXCEPT ![i] = [pc |-> "upload", upload |-> Head(q), timer |-> 0]]
       /\ uploadCalls' = [calls EXCEPT ![Head(q)] = @ + 1]
       /\ uploadDest' = uploadDest \cup
            {<<Head(q), calls[Head(q)] + 1, AttemptBucket(heap, Head(q))>>}
       /\ rmProcessing' = p
  ELSE /\ uploadQueue' = q
       /\ uploadLoops' = RemoveAt(ls, i)
       /\ uploadCalls' = calls
       /\ uploadDest' = uploadDest
       /\ rmProcessing' = p

\* processUploadQueue, from the loop test to the next await or to the return:
\* activation i of ls, with queue q, task objects heap, call counts calls and
\* flag value p.  The call of uploadRecording runs S3Uploader.upload up to
\* its first await, which resolves the bucket of this attempt.
UploadLoopNext(ls, i, q, heap, calls, p) ==
  IF Len(q) > 0
  THEN /\ uploadQueue' = Tail(q)
       /\ uploadLoops' = [ls EXCEPT ![i] = [pc |-> "upload", upload |-> Head(q), timer |-> 0]]
       /\ uploadCalls' = [calls EXCEPT ![Head(q)] = @ + 1]
       /\ uploadDest' = uploadDest \cup
            {<<Head(q), calls[Head(q)] + 1, AttemptBucket(heap, Head(q))>>}
       /\ rmProcessing' = p
  ELSE /\ uploadQueue' = q
       /\ uploadLoops' = RemoveAt(ls, i)
       /\ uploadCalls' = calls
       /\ uploadDest' = uploadDest
       /\ rmProcessing' = FALSE

\* a call of processUploadQueue() with queue q, task objects heap and call
\* counts calls
ProcessUploadQueue(q, heap, calls) ==
  IF ReturnsEarly(rmProcessing, q)
  THEN /\ uploadQueue' = q
       /\ uploadCalls' = calls
       /\ UNCHANGED <<rmProcessing, uploadLoops, uploadDest>>
  ELSE UploadLoopNext(Append(uploadLoops, [pc |-> "start", upload |-> 0, timer |-> 0]),
                      Len(uploadLoops) + 1, q, heap, calls, TRUE)

\* mutant: queueForUpload pushes the task and does not call processUploadQueue
EnqueueUploadNoDrain(c) ==
  /\ uploads' = Append(uploads, NewUpload(c))
  /\ transfers' = Append(transfers, 0)
  /\ uploadQueue' = Append(uploadQueue, Len(uploads) + 1)
  /\ uploadCalls' = Append(uploadCalls, 0)
  /\ UNCHANGED <<rmProcessing, uploadLoops, uploadDest, uploaded, uploadDropped, unlinked>>

\* queueForUpload(filePath, connection, sessionId) for connection c: its
\* effect on the RecordingManager
EnqueueUpload(c) ==
  /\ uploads' = Append(uploads, NewUpload(c))
  /\ transfers' = Append(transfers, 0)
  /\ ProcessUploadQueue(Append(uploadQueue, Len(uploads) + 1), uploads',
                        Append(uploadCalls, 0))
  /\ UNCHANGED <<uploaded, uploadDropped, unlinked>>

\* queueForUpload(filePath, connection, sessionId) called on its own
QueueForUpload ==
  /\ TasksCreated < MaxTasks
  /\ \E c \in Sessions : EnqueueUpload(c)
  /\ UNCHANGED <<whVars, stopVars, envVars>>

\* processUploadQueue() called on its own
DrainUploads ==
  /\ ProcessUploadQueue(uploadQueue, uploads, uploadCalls)
  /\ UNCHANGED <<uploads, uploaded, uploadDropped, unlinked, transfers,
                 whVars, stopVars, envVars>>

\* uploadRecording, after S3Uploader.upload has resolved for task id: the
\* file is removed if the configuration asks for it and fs.unlink succeeds
\* (unlinkOk); a failed unlink is only logged
UnlinkAfterUpload(id, unlinkOk) ==
  unlinked' = IF DeletesLocal(config) /\ unlinkOk THEN unlinked \cup {id} ELSE unlinked

\* mutant: the delivered task falls through to the requeue of the catch block
UploadResolvesRequeues(i) ==
  /\ uploadLoops[i].pc = "upload"
  /\ CurrentBucket(uploadLoops[i].upload) # NoBucket
  /\ uploaded' = uploaded \cup {uploadLoops[i].upload}
  /\ transfers' = [transfers EXCEPT ![uploadLoops[i].upload] = @ + 1]
  /\ \E unlinkOk \in BOOLEAN : UnlinkAfterUpload(uploadLoops[i].upload, unlinkOk)
  /\ UploadLoopNext(uploadLoops, i, Append(uploadQueue, uploadLoops[i].upload),
                    uploads, uploadCalls, rmProcessing)
  /\ UNCHANGED <<uploads, uploadDropped, whVars, stopVars, envVars>>

\* mutant: uploadRecording lets the error of a failed unlink through, and the
\* catch block of processUploadQueue counts the attempt as failed
UploadResolvesUnlinkThrows(i, n) ==
  /\ uploadLoops[i].pc = "upload"
  /\ CurrentBucket(uploadLoops[i].upload) # NoBucket
  /\ uploaded' = uploaded \cup {uploadLoops[i].upload}
  /\ transfers' = [transfers EXCEPT ![uploadLoops[i].upload] = @ + n]
  /\ \E unlinkOk \in BOOLEAN :
       /\ UnlinkAfterUpload(uploadLoops[i].upload, unlinkOk)
       /\ IF DeletesLocal(config) /\ ~unlinkOk
          THEN LET id == uploadLoops[i].upload
                   task == [uploads[id] EXCEPT !.attempts = @ + 1]
               IN /\ uploads' = [uploads EXCEPT ![id] = task]
                  /\ IF MayRetry(task)
                     THEN /\ uploadQueue' = Requeue(uploadQueue, id)
                          /\ uploadLoops' = [uploadLoops EXCEPT ![i] =
                                 [pc |-> "sleep", upload |-> id, timer |-> UploadBackoff(task)]]
                          /\ UNCHANGED <<uploadCalls, rmProcessing, uploadDropped, uploadDest>>
                     ELSE /\ uploadDropped' = uploadDropped \cup {id}
                          /\ UploadLoopNext(uploadLoops, i, uploadQueue, uploads', uploadCalls,
                                            rmProcessing)
          ELSE /\ UploadLoopNext(uploadLoops, i, uploadQueue, uploads, uploadCalls, rmProcessing)
               /\ UNCHANGED <<uploads, uploadDropped>>
  /\ UNCHANGED <<whVars, stopVars, envVars>>

\* await this.uploadRecording(upload) resolves, S3Uploader.upload having made
\* n calls of performUpload: it had a bucket, the last call made by its retry
\* wrapper succeeded, and the unlink, if any, was made.  The pauses of the
\* wrapper between its calls are time that passes while the attempt is in
\* progress.
UploadResolvesAfter(i, n) ==
  /\ uploadLoops[i].pc = "upload"
  /\ CurrentBucket(uploadLoops[i].upload) # NoBucket
  /\ uploaded' = uploaded \cup {uploadLoops[i].upload}
  /\ transfers' = [transfers EXCEPT ![uploadLoops[i].upload] = @ + n]
  /\ \E unlinkOk \in BOOLEAN : UnlinkAfterUpload(uploadLoops[i].upload, unlinkOk)
  /\ UploadLoopNext(uploadLoops, i, uploadQueue, uploads, uploadCalls, rmProcessing)
  /\ UNCHANGED <<uploads, uploadDropped, whVars, stopVars, envVars>>

\* await this.uploadRecording(upload) resolves, the first call of
\* performUpload having succeeded
UploadResolves(i) == UploadResolvesAfter(i, 1)

\* await this.uploadRecording(upload) resolves, a retry of the wrapper having
\* succeeded
UploadResolvesRetried(i) ==
  \E n \in ResolvedTransfers \ {1} : UploadResolvesAfter(i, n)

\* the calls of performUpload made by a call of S3Uploader.upload that
\* rejects: none if it threw before the transfer, else every call its retry
\* wrapper makes when all of them fail
RejectedTransfers(id) ==
  IF CurrentBucket(id) = NoBucket
  THEN 0
  ELSE WrapperCalls([k \in 1..(WrapperMaxRetries + 1) |-> FALSE], 0)

\* mutant: at the ceiling the catch block throws the error again, which ends
\* the activation where it stands
UploadAbandonRethrows(ls, i, q, heap, calls, p) ==
  /\ uploadQueue' = q
  /\ uploadLoops' = RemoveAt(ls, i)
  /\ uploadCalls' = calls
  /\ uploadDest' = uploadDest
  /\ rmProcessing' = p

\* processUploadQueue, the else branch of the catch block: the abandonment
\* is logged and control falls through to the loop test
UploadAbandon(ls, i, q, heap, calls, p) == UploadLoopNext(ls, i, q, heap, calls, p)

\* await this.uploadRecording(upload) rejects: the catch block
UploadRejects(i) ==
  /\ uploadLoops[i].pc = "upload"
  /\ LET id == uploadLoops[i].upload
         task == [uploads[id] EXCEPT !.attempts = @ + 1]
     IN /\ uploads' = [uploads EXCEPT ![id] = task]
        /\ transfers' = [transfers EXCEPT ![id] = @ + RejectedTransfers(id)]
        /\ IF MayRetry(task)
           THEN /\ uploadQueue' = Requeue(uploadQueue, id)
                /\ uploadLoops' = [uploadLoops EXCEPT ![i] =
                       [pc |-> "sleep", upload |-> id, timer |-> UploadBackoff(task)]]
                /\ UNCHANGED <<uploadCalls, rmProcessing, uploadDropped, uploadDest>>
           ELSE /\ uploadDropped' = uploadDropped \cup {id}
                /\ UploadAbandon(uploadLoops, i, uploadQueue, uploads', uploadCalls,
                                 rmProcessing)
  /\ UNCHANGED <<uploaded, unlinked, whVars, stopVars, envVars>>

\* mutant: the loop goes on without waiting for the retry pause
UploadSleepDoneAtOnce(i) ==
  /\ uploadLoops[i].pc = "sleep"
  /\ UploadLoopNext(uploadLoops, i, uploadQueue, uploads, uploadCalls, rmProcessing)
  /\ UNCHANGED <<uploads, uploaded, uploadDropped, unlinked, transfers,
                 whVars, stopVars, envVars>>

\* mutant: the loop returns after the retry pause, whatever is on the queue
UploadSleepDoneReturns(i) ==
  /\ uploadLoops[i].pc = "sleep"
  /\ uploadLoops[i].timer = 0
  /\ uploadLoops' = RemoveAt(uploadLoops, i)
  /\ rmProcessing' = FALSE
  /\ UNCHANGED <<uploadQueue, uploadCalls, uploadDest>>
  /\ UNCHANGED <<uploads, uploaded, uploadDropped, unlinked, transfers,
                 whVars, stopVars, envVars>>

\* the setTimeout of the retry pause fires
UploadSleepDone(i) ==
  /\ uploadLoops[i].pc = "sleep"
  /\ uploadLoops[i].timer = 0
  /\ UploadLoopNext(uploadLoops, i, uploadQueue, uploads, uploadCalls, rmProcessing)
  /\ UNCHANGED <<uploads, uploaded, uploadDropped, unlinked, transfers,
                 whVars, stopVars, envVars>>

\* ---- WebhookManager: the notification queue ------------------------------

\* an empty URL: webhook_url not set
NoUrl == ""

\* mutant: the manager is enabled by webhook_enable alone
EnabledIgnoresUrl(cfg) == cfg.webhook_enable

\* the WebhookManager constructor: this.enabled
Enabled(cfg) == cfg.webhook_enable /\ cfg.webhook_url # NoUrl

\* WebhookManager.isEnabled
IsEnabled == enabled = TRUE

\* mutant: the task is pushed as if it had failed once already
NewWebhookAttempted(payload) ==
  [attempts |-> 1, maxAttempts |-> WebhookMaxAttempts, nextRetry |-> DateNow,
   payload |-> payload]

\* queueWebhook: the task object pushed on the queue
NewWebhook(payload) ==
  [attempts |-> 0, maxAttempts |-> WebhookMaxAttempts, nextRetry |-> DateNow,
   payload |-> payload]

\* sendSessionStarted, sendSessionEnded, sendRecordingSaved: the payload of
\* an event of connection c; bucket is the 'bucket' field of recording_saved
Payload(event, c, bucket) == [event |-> event, session |-> c, bucket |-> bucket]

\* mutant: the two managers test one shared processing flag
WhReturnsEarlyShared(processing, q) == processing \/ rmProcessing \/ Len(q) = 0

\* processQueue: the early return at its entry
WhReturnsEarly(processing, q) == processing \/ Len(q) = 0

\* mutant: the backoff gate opens one second early
InBackoffLate(task) == task.nextRetry > DateNow + 1

\* processQueue: the backoff gate of the task taken from the head
InBackoff(task) == task.nextRetry > DateNow

\* processQueue: a task still in backoff goes back on the queue
PutBack(q, id) == <<id>> \o q

\* mutant: the ceiling test allows one attempt more
WhMayRetryInclusive(task) == task.attempts <= task.maxAttempts

\* mutant: the ceiling test gives up one attempt early
WhMayRetryOffByOne(task) == task.attempts < task.maxAttempts - 1

\* processQueue: the test that decides between retry and abandonment
WhMayRetry(task) == task.attempts < task.maxAttempts

\* mutant: the delay doubles without a cap
BackoffDelayUncapped(task) == BackoffBase * 2 ^ task.attempts

\* processQueue: the delay before the next attempt of a failed task
BackoffDelay(task) == Min(BackoffBase * 2 ^ task.attempts, BackoffCap)

\* mutant: the failed task is pushed twice
WhRequeueTwice(q, id) == Append(Append(q, id), id)

\* processQueue: the failed task goes back on the queue
WhRequeue(q, id) == Append(q, id)

\* processQueue, from the loop test to the next await or to the return:
\* activation i of ls, with queue q, task objects heap, call counts calls
\* and flag value p.  The call of sendWebhook reads the URL of this attempt
\* from the configuration before its await.
WhLoopNext(ls, i, q, heap, calls, p) ==
  IF Len(q) > 0
  THEN IF InBackoff(heap[Head(q)])
       THEN /\ queue' = PutBack(Tail(q), Head(q))
            /\ whLoops' = [ls EXCEPT ![i] = [pc |-> "poll", webhook |-> Head(q), timer |-> PollDelay]]
            /\ sendCalls' = calls
            /\ sendUrl' = sendUrl
            /\ whProcessing' = p
       ELSE /\ queue' = Tail(q)
            /\ whLoops' = [ls EXCEPT ![i] = [pc |-> "send", webhook |-> Head(q), timer |-> 0]]
            /\ sendCalls' = [calls EXCEPT ![Head(q)] = @ + 1]
            /\ sendUrl' = sendUrl \cup {<<Head(q), calls[Head(q)] + 1, config.webhook_url>>}
            /\ whProcessing' = p
  ELSE /\ queue' = q
       /\ whLoops' = RemoveAt(ls, i)
       /\ sendCalls' = calls
       /\ sendUrl' = sendUrl
       /\ whProcessing' = FALSE

\* a call of processQueue() with queue q, task objects heap and call counts calls
ProcessQueue(q, heap, calls) ==
  IF WhReturnsEarly(whProcessing, q)
  THEN /\ queue' = q
       /\ sendCalls' = calls
       /\ UNCHANGED <<whProcessing, whLoops, sendUrl>>
  ELSE WhLoopNext(Append(whLoops, [pc |-> "start", webhook |-> 0, timer |-> 0]),
                  Len(whLoops) + 1, q, heap, calls, TRUE)

\* queueWebhook(payload): its effect on the WebhookManager
EnqueueWebhook(payload) ==
  /\ webhooks' = Append(webhooks, NewWebhook(payload))
  /\ ProcessQueue(Append(queue, Len(webhooks) + 1), webhooks', Append(sendCalls, 0))
  /\ UNCHANGED <<sent, sendDropped>>

\* sendSessionStarted, sendSessionEnded, sendRecordingSaved with the payload
\* they build: nothing when the manager is not enabled, else queueWebhook
SendEvent(payload) ==
  IF ~IsEnabled
  THEN UNCHANGED whVars
  ELSE EnqueueWebhook(payload)

\* sendSessionStarted(sessionId, connection), which handleSessionOpen calls
\* for a new session: queueWebhook(payload) on its own
QueueWebhook ==
  /\ TasksCreated < MaxTasks
  /\ \E c \in Sessions : SendEvent(Payload("session_started", c, NoBucket))
  /\ UNCHANGED <<rmVars, stopVars, envVars>>

\* processQueue() called on its own
DrainWebhooks ==
  /\ ProcessQueue(queue, webhooks, sendCalls)
  /\ UNCHANGED <<webhooks, sent, sendDropped, rmVars, stopVars, envVars>>

\* no call of axios has settled yet
NoResponse == [webhook |-> 0, call |-> 0, status |-> 0]

\* no HTTP status: the call of axios rejected (no response, timeout)
TransportError == 0

\* the HTTP statuses a response may have
HttpStatuses == {199, 200, 204, 299, 300, 404, 500}

\* mutant: a redirect or any status below 400 passes for delivered
HttpOkBelow400(status) == ~(status < 200 \/ status >= 400)

\* sendWebhook: the status test after await axios(options), negated
HttpOk(status) == ~(status < 200 \/ status >= 300)

\* await this.sendWebhook(webhook.payload) resolves: processQueue goes on
\* after the call inside its try block
SendSucceeded(i) ==
  /\ whLoops[i].pc = "send"
  /\ sent' = sent \cup {whLoops[i].webhook}
  /\ WhLoopNext(whLoops, i, queue, webhooks, sendCalls, whProcessing)
  /\ UNCHANGED <<webhooks, sendDropped, rmVars, stopVars, config, fixedVars, sessions>>

\* await this.sendWebhook(webhook.payload) resolves
SendResolves(i) ==
  /\ SendSucceeded(i)
  /\ UNCHANGED obsVars

\* await this.sendWebhook(webhook.payload) rejects: the catch block of
\* processQueue
SendFailed(i) ==
  /\ whLoops[i].pc = "send"
  /\ LET id == whLoops[i].webhook
         failed == [webhooks[id] EXCEPT !.attempts = @ + 1]
         task == IF WhMayRetry(failed)
                 THEN [failed EXCEPT !.nextRetry = DateNow + BackoffDelay(failed)]
                 ELSE failed
     IN /\ webhooks' = [webhooks EXCEPT ![id] = task]
        /\ IF WhMayRetry(failed)
           THEN /\ WhLoopNext(whLoops, i, WhRequeue(queue, id), webhooks', sendCalls,
                              whProcessing)
                /\ UNCHANGED sendDropped
           ELSE /\ sendDropped' = sendDropped \cup {id}
                /\ WhLoopNext(whLoops, i, queue, webhooks', sendCalls, whProcessing)
  /\ UNCHANGED <<sent, rmVars, stopVars, config, fixedVars, sessions>>

\* await this.sendWebhook(webhook.payload) rejects
SendRejects(i) ==
  /\ SendFailed(i)
  /\ UNCHANGED obsVars

\* await this.sendWebhook(webhook.payload) rejects, and the time from the
\* failure to the nextRetry the catch block has set, if it has set one, is
\* noted in call.delays
SendFails(i) ==
  /\ SendFailed(i)
  /\ call.fn = "backoff"
  /\ LET id == whLoops[i].webhook
     IN call' = IF WhMayRetry(webhooks'[id])
                THEN [call EXCEPT !.delays = Append(@, webhooks'[id].nextRetry - DateNow)]
                ELSE call
  /\ UNCHANGED <<lastResponse, files, compress, wrapper>>

\* sendWebhook, from the settling of await axios(options) to the catch block
\* of processQueue or to the code after the call: axios rejects, or resolves
\* with a response of some status, which sendWebhook tests
SendResponds(i) ==
  /\ whLoops[i].pc = "send"
  /\ \E status \in HttpStatuses \cup {TransportError} :
       /\ lastResponse' = [webhook |-> whLoops[i].webhook,
                           call |-> sendCalls[whLoops[i].webhook],
                           status |-> status]
       /\ IF status # TransportError /\ HttpOk(status)
          THEN SendSucceeded(i)
          ELSE SendFailed(i)
  /\ UNCHANGED <<files, compress, wrapper, call>>

\* the setTimeout of the poll pause fires
PollDone(i) ==
  /\ whLoops[i].pc = "poll"
  /\ whLoops[i].timer = 0
  /\ WhLoopNext(whLoops, i, queue, webhooks, sendCalls, whProcessing)
  /\ UNCHANGED <<webhooks, sent, sendDropped, rmVars, stopVars, envVars>>

\* ---- GuacamoleLiteServer.stop() and the cleanup() calls it makes ----------

\* RecordingManager.cleanup: the test of its polling loop
RmCleanupWaits(q, processing) == Len(q) > 0 /\ processing

\* WebhookManager.cleanup: the test of its polling loop
WhCleanupWaits(q, processing) == Len(q) > 0 /\ processing

\* stop(): await this.webhookManager.cleanup(), from the test of its loop on
WhCleanupStep ==
  IF WhCleanupWaits(queue, whProcessing)
  THEN /\ whCleanup' = "polling"
       /\ cleanupTimer' = CleanupPollDelay
       /\ stopPc' = "whCleanup"
  ELSE /\ whCleanup' = "resolved"
       /\ cleanupTimer' = 0
       /\ stopPc' = "stopped"

\* mutant: stop() does not await recordingManager.cleanup()
RmCleanupStepNotAwaited ==
  /\ rmCleanup' = IF RmCleanupWaits(uploadQueue, rmProcessing) THEN "polling" ELSE "resolved"
  /\ WhCleanupStep

\* stop(): await this.recordingManager.cleanup(), from the test of its loop on
RmCleanupStep ==
  IF RmCleanupWaits(uploadQueue, rmProcessing)
  THEN /\ rmCleanup' = "polling"
       /\ cleanupTimer' = CleanupPollDelay
       /\ stopPc' = "rmCleanup"
       /\ UNCHANGED whCleanup
  ELSE /\ rmCleanup' = "resolved"
       /\ WhCleanupStep

\* stop() is called: up to await this.server.stop()
StopCall ==
  /\ stopPc = "running"
  /\ stopPc' = "serverStop"
  /\ UNCHANGED <<serverRunning, connectionsOpen, rmCleanup, whCleanup, cleanupTimer,
                 rmVars, whVars, envVars>>

\* this.server.stop() resolves: the connections are closed and
\* recordingManager.cleanup() is called
ServerStopped ==
  /\ stopPc = "serverStop"
  /\ serverRunning' = FALSE
  /\ connectionsOpen' = FALSE
  /\ RmCleanupStep
  /\ UNCHANGED <<rmVars, whVars, envVars>>

\* this.server.stop() rejects: stop() rejects with it
ServerStopFails ==
  /\ stopPc = "serverStop"
  /\ stopPc' = "failed"
  /\ UNCHANGED <<serverRunning, connectionsOpen, rmCleanup, whCleanup, cleanupTimer,
                 rmVars, whVars, envVars>>

\* the poll timer of recordingManager.cleanup() fires
RmCleanupPoll ==
  /\ stopPc = "rmCleanup"
  /\ cleanupTimer = 0
  /\ RmCleanupStep
  /\ UNCHANGED <<serverRunning, connectionsOpen, rmVars, whVars, envVars>>

\* the poll timer of webhookManager.cleanup() fires
WhCleanupPoll ==
  /\ stopPc = "whCleanup"
  /\ cleanupTimer = 0
  /\ WhCleanupStep
  /\ UNCHANGED <<serverRunning, connectionsOpen, rmCleanup, rmVars, whVars, envVars>>

\* ---- RecordingManager.handleRecordingEnd ----------------------------------

\* handleRecordingEnd: the test of its early return
RecordingMissing(connection) == ~connection.recordingExists

\* mutant: the recording is queued for upload whatever the storage is
QueuesUploadAnyStorage(cfg) == s3Uploader

\* handleRecordingEnd: the test that guards queueForUpload
QueuesUpload(cfg) == cfg.recordings_storage = "s3" /\ s3Uploader

\* handleRecordingEnd(recordingPath, connection, sessionId) for connection c,
\* up to its return of null or to await compressRecording
RecordingEndCalled(c) ==
  IF RecordingMissing(sessions[c])
  THEN [sessions[c] EXCEPT !.returned = "null"]
  ELSE [sessions[c] EXCEPT !.pc = "compress"]

\* handleRecordingEnd after compressRecording has resolved: its effect on the
\* RecordingManager; it then returns the path
RecordingEndResumes(c) ==
  IF QueuesUpload(config)
  THEN EnqueueUpload(c)
  ELSE UNCHANGED rmVars

\* handleRecordingEnd is called for connection c on its own
HandleRecordingEnd(c) ==
  /\ sessions[c].pc = "open"
  /\ TasksCreated < MaxTasks
  /\ sessions' = [sessions EXCEPT ![c] =
                    IF RecordingMissing(sessions[c])
                    THEN [RecordingEndCalled(c) EXCEPT !.pc = "ended"]
                    ELSE RecordingEndCalled(c)]
  /\ UNCHANGED <<rmVars, whVars, stopVars, config, fixedVars, obsVars>>

\* compressRecording resolves in a call of handleRecordingEnd made on its own
RecordingCompressed(c) ==
  /\ sessions[c].pc = "compress"
  /\ RecordingEndResumes(c)
  /\ sessions' = [sessions EXCEPT ![c].pc = "ended", ![c].returned = "path"]
  /\ UNCHANGED <<whVars, stopVars, config, fixedVars, obsVars>>

\* ---- RecordingManager.compressRecording -----------------------------------

\* the recordings whose files are compressed
Recordings == 1..MaxRecordings

\* no path: compressRecording has not returned
NoPath == [recording |-> 0, ext |-> ""]

\* the path of the file of recording r, as handed to compressRecording
InputPath(r) == [recording |-> r, ext |-> ""]

\* compressRecording: config.recordings_compression_format || 'none'
Format(cfg) ==
  IF cfg.recordings_compression_format = ""
  THEN "none"
  ELSE cfg.recordings_compression_format

\* Utils.getFileExtensionForCompression
GetFileExtensionForCompression(format) ==
  CASE format = "gzip" -> ".gz"
    [] format = "zip" -> ".zip"
    [] format = "none" -> ""
    [] OTHER -> ""

\* compressRecording: inputPath + Utils.getFileExtensionForCompression(format)
OutputPath(inputPath, format) ==
  [inputPath EXCEPT !.ext = @ \o GetFileExtensionForCompression(format)]

\* fs.existsSync(path) on the file system fs
ExistsSync(fs, path) == path \in fs

\* the streams of a transform that may emit 'error'
ErrorSources == {"read", "transform", "write"}

\* compressWithGzip, compressWithZip: an 'error' event of the stream source
\* rejects the promise.  compressWithGzip listens on its read stream, on the
\* gzip stream and on its write stream; compressWithZip listens on the
\* archive only, which reads and transforms, not on its output stream.
Rejects(format, source) ==
  \/ format = "gzip"
  \/ format = "zip" /\ source # "write"

\* compressRecording after the transform, if any, has resolved: the test of
\* fs.existsSync(outputPath) on the file system fs, for the call c of
\* recording r
AfterTransform(c, fs, r) ==
  IF ExistsSync(fs, OutputPath(InputPath(r), Format(config)))
  THEN [c EXCEPT !.pc = "unlinking"]
  ELSE [c EXCEPT !.pc = "returned", !.returned = InputPath(r)]

\* mutant: compressRecording removes the input before it starts the transform
CompressRecordingUnlinksFirst(r) ==
  /\ compress[r].pc = "idle"
  /\ IF Format(config) = "none"
     THEN /\ compress' = [compress EXCEPT ![r] =
                 [@ EXCEPT !.pc = "returned", !.returned = InputPath(r)]]
          /\ files' = files
     ELSE IF Format(config) \in {"gzip", "zip"}
          THEN /\ compress' = [compress EXCEPT ![r] =
                      [@ EXCEPT !.pc = "writing", !.transforms = @ + 1]]
               /\ files' = files \ {InputPath(r)}
          ELSE /\ compress' = [compress EXCEPT ![r] = AfterTransform(@, files, r)]
               /\ files' = files
  /\ UNCHANGED <<rmVars, whVars, stopVars, config, fixedVars, sessions, lastResponse, wrapper, call>>

\* compressRecording(inputPath) is called for recording r: up to its return
\* for format 'none', to the await of compressWithGzip or compressWithZip, or,
\* for any other format, to the test that follows them
CompressRecording(r) ==
  /\ compress[r].pc = "idle"
  /\ IF Format(config) = "none"
     THEN compress' = [compress EXCEPT ![r] =
            [@ EXCEPT !.pc = "returned", !.returned = InputPath(r)]]
     ELSE IF Format(config) \in {"gzip", "zip"}
          THEN compress' = [compress EXCEPT ![r] =
                 [@ EXCEPT !.pc = "writing", !.transforms = @ + 1]]
          ELSE compress' = [compress EXCEPT ![r] = AfterTransform(@, files, r)]
  /\ files' = files
  /\ UNCHANGED <<rmVars, whVars, stopVars, config, fixedVars, sessions, lastResponse, wrapper, call>>

\* the output of recording r has been written: 'finish' of the write stream
\* (gzip) or 'close' of the output stream (zip) resolves the transform
WriteFinishes(r) ==
  /\ compress[r].pc = "writing"
  /\ files' = files \cup {OutputPath(InputPath(r), Format(config))}
  /\ compress' = [compress EXCEPT ![r] =
                   AfterTransform([@ EXCEPT !.finished = TRUE], files', r)]
  /\ UNCHANGED <<rmVars, whVars, stopVars, config, fixedVars, sessions, lastResponse, wrapper, call>>

\* a stream of the transform of recording r emits 'error'; the output file
\* may exist by then, in part.  A rejected transform is caught by
\* compressRecording, which logs and returns inputPath; an 'error' event
\* nothing listens to is thrown by the emitter as an uncaught exception.
WriteFails(r) ==
  /\ compress[r].pc = "writing"
  /\ \E source \in ErrorSources : \E partial \in BOOLEAN :
       /\ files' = IF partial
                   THEN files \cup {OutputPath(InputPath(r), Format(config))}
                   ELSE files
       /\ compress' = [compress EXCEPT ![r] =
            IF Rejects(Format(config), source)
            THEN [@ EXCEPT !.pc = "returned", !.returned = InputPath(r), !.failed = TRUE]
            ELSE [@ EXCEPT !.pc = "uncaught", !.failed = TRUE]]
  /\ UNCHANGED <<rmVars, whVars, stopVars, config, fixedVars, sessions, lastResponse, wrapper, call>>

\* await promisify(fs.unlink)(inputPath) settles for recording r: the input
\* is removed and outputPath returned, or the unlink fails and the catch block
\* logs and inputPath is returned
UnlinkSettles(r) ==
  /\ compress[r].pc = "unlinking"
  /\ \E ok \in {b \in BOOLEAN : b => ExistsSync(files, InputPath(r))} :
       IF ok
       THEN /\ files' = files \ {InputPath(r)}
            /\ compress' = [compress EXCEPT ![r] =
                 [@ EXCEPT !.pc = "returned",
                           !.returned = OutputPath(InputPath(r), Format(config))]]
       ELSE /\ files' = files
            /\ compress' = [compress EXCEPT ![r] =
                 [@ EXCEPT !.pc = "returned", !.returned = InputPath(r), !.failed = TRUE]]
  /\ UNCHANGED <<rmVars, whVars, stopVars, config, fixedVars, sessions, lastResponse, wrapper, call>>

\* ---- Utils.createRetryWrapper, call by call --------------------------------

\* the errors a call of fn may throw
Errors == {"e1", "e2"}

\* the wrapped function before it is called
IdleWrapper(maxRetries, baseDelay) ==
  [pc |-> "idle", maxRetries |-> maxRetries, baseDelay |-> baseDelay,
   attempt |-> 0, calls |-> 0, timer |-> 0, waited |-> 0,
   lastError |-> "none", errors |-> <<>>, result |-> 0, thrown |-> "none"]

\* mutant: the pause grows by baseDelay with each attempt
WrapperDelayLinear(baseDelay, attempt) == baseDelay * (attempt + 1)

\* createRetryWrapper: the pause after the failed call of iteration attempt
WrapperDelay(baseDelay, attempt) == baseDelay * 2 ^ attempt

\* createRetryWrapper: the loop test with the loop variable at attempt, and
\* the call of fn that follows it; after the loop the function returns
\* undefined
WrapperLoop(w, attempt) ==
  IF attempt <= w.maxRetries
  THEN [w EXCEPT !.pc = "calling", !.attempt = attempt, !.calls = @ + 1]
  ELSE [w EXCEPT !.pc = "resolved", !.attempt = attempt, !.result = 0]

\* the wrapped function is called
WrappedCall ==
  /\ wrapper.pc = "idle"
  /\ wrapper' = WrapperLoop(wrapper, 0)
  /\ UNCHANGED <<rmVars, whVars, stopVars, config, fixedVars, sessions,
                 lastResponse, files, compress, call>>

\* await fn.apply(this, args) resolves: the wrapped function returns the
\* result of this call, which is named by the number of the call
FnResolves ==
  /\ wrapper.pc = "calling"
  /\ wrapper' = [wrapper EXCEPT !.pc = "resolved", !.result = wrapper.calls]
  /\ UNCHANGED <<rmVars, whVars, stopVars, config, fixedVars, sessions,
                 lastResponse, files, compress, call>>

\* await fn.apply(this, args) rejects: the catch block
FnRejects ==
  /\ wrapper.pc = "calling"
  /\ \E error \in Errors :
       wrapper' =
         IF wrapper.attempt = wrapper.maxRetries
         THEN [wrapper EXCEPT !.pc = "rejected", !.lastError = error,
                              !.errors = Append(@, error), !.thrown = error]
         ELSE [wrapper EXCEPT !.pc = "waiting", !.lastError = error,
                              !.errors = Append(@, error),
                              !.timer = WrapperDelay(wrapper.baseDelay, wrapper.attempt),
                              !.waited = 0]
  /\ UNCHANGED <<rmVars, whVars, stopVars, config, fixedVars, sessions,
                 lastResponse, files, compress, call>>

\* time passes while the wrapper waits
WrapperTick ==
  /\ wrapper.pc = "waiting"
  /\ wrapper.timer > 0
  /\ wrapper' = [wrapper EXCEPT !.timer = @ - 1, !.waited = @ + 1]
  /\ UNCHANGED <<rmVars, whVars, stopVars, config, fixedVars, sessions,
                 lastResponse, files, compress, call>>

\* the setTimeout of the pause fires: the next iteration of the loop
WrapperTimerFires ==
  /\ wrapper.pc = "waiting"
  /\ wrapper.timer = 0
  /\ wrapper' = WrapperLoop(wrapper, wrapper.attempt + 1)
  /\ UNCHANGED <<rmVars, whVars, stopVars, config, fixedVars, sessions,
                 lastResponse, files, compress, call>>

\* ---- Utils.sanitizeWebhookPayload ------------------------------------------
\* A JSON value is [type, str, obj]: a string (str), null, or an object (obj:
\* a function from keys to JSON values).  A key is a sequence of characters.

Str(s) == [type |-> "string", str |-> s, obj |-> <<>>]

Null == [type |-> "null", str |-> "", obj |-> <<>>]

Obj(f) == [type |-> "object", str |-> "", obj |-> f]

\* sanitizeWebhookPayload: the marker put in the place of a sensitive value
Redacted == Str("[REDACTED]")

\* sanitizeWebhookPayload: the list sensitiveFields
SensitiveFields ==
  {<<"p","a","s","s","w","o","r","d">>,
   <<"p","r","i","v","a","t","e","-","k","e","y">>,
   <<"s","e","c","r","e","t">>,
   <<"t","o","k","e","n">>,
   <<"p","a","s","s","p","h","r","a","s","e">>,
   <<"s","e","c","r","e","t","_","k","e","y">>,
   <<"a","c","c","e","s","s","_","k","e","y">>,
   <<"a","p","i","_","k","e","y">>}

UpperCase == <<"A","B","C","D","E","F","G","H","I","J","K","L","M",
               "N","O","P","Q","R","S","T","U","V","W","X","Y","Z">>

LowerCase == <<"a","b","c","d","e","f","g","h","i","j","k","l","m",
               "n","o","p","q","r","s","t","u","v","w","x","y","z">>

\* String.prototype.toLowerCase, character by character
ToLowerCase(s) ==
  [i \in DOMAIN s |->
     IF \E n \in DOMAIN UpperCase : UpperCase[n] = s[i]
     THEN LowerCase[CHOOSE n \in DOMAIN UpperCase : UpperCase[n] = s[i]]
     ELSE s[i]]

\* String.prototype.includes
Includes(s, t) ==
  \E i \in 0..(Len(s) - Len(t)) : SubSeq(s, i + 1, i + Len(t)) = t

\* mutant: the key is compared as it is written
IsSensitiveCaseSensitive(key) == \E field \in SensitiveFields : Includes(key, field)

\* sanitizeWebhookPayload: sensitiveFields.some(field =>
\* key.toLowerCase().includes(field))
IsSensitive(key) == \E field \in SensitiveFields : Includes(ToLowerCase(key), field)

\* JSON.parse(JSON.stringify(data)) on a JSON value: a value built anew, key
\* by key
RECURSIVE JsonClone(_)
JsonClone(v) ==
  IF v.type = "object"
  THEN Obj([key \in DOMAIN v.obj |-> JsonClone(v.obj[key])])
  ELSE v

\* sanitizeWebhookPayload: removeSensitiveFields(obj), as the value obj has
\* after the call
RECURSIVE RemoveSensitiveFields(_)
RemoveSensitiveFields(v) ==
  IF v.type = "object"
  THEN Obj([key \in DOMAIN v.obj |->
              IF IsSensitive(key)
              THEN Redacted
              ELSE IF v.obj[key].type \in {"object", "null"}
                   THEN RemoveSensitiveFields(v.obj[key])
                   ELSE v.obj[key]])
  ELSE v

\* Utils.sanitizeWebhookPayload(data)
SanitizeWebhookPayload(data) ==
  IF data.type # "object"
  THEN data
  ELSE RemoveSensitiveFields(JsonClone(data))

\* the keys of the payloads: 'Token' and 'my_api_key2' contain a word of the
\* list when in lower case, 'userId' and 'pass' do not
KeyToken == <<"T","o","k","e","n">>

KeyApiKey == <<"m","y","_","a","p","i","_","k","e","y","2">>

KeyUserId == <<"u","s","e","r","I","d">>

KeyPass == <<"p","a","s","s">>

Keys == {KeyToken, KeyApiKey, KeyUserId, KeyPass}

Leaves == {Str("visible"), Null}

\* the objects of up to two keys with values that are no objects
FlatObjects ==
  {Obj(f) : f \in UNION {[D -> Leaves] : D \in {S \in SUBSET Keys : Cardinality(S) <= 2}}}

\* no function is called
NoCall == [fn |-> "none"]

\* no call made yet
NoResult == [once |-> Null, twice |-> Null, called |-> FALSE]

\* a payload is put into a new object under key, on its own or beside a
\* second key
NestPayload ==
  /\ call.fn = "sanitizeWebhookPayload"
  /\ ~call.result.called
  /\ call.depth < MaxDepth
  /\ \E key \in Keys : \E beside \in SUBSET (Keys \ {key}) :
       /\ Cardinality(beside) <= 1
       /\ beside \subseteq {KeyToken, KeyUserId}
       /\ call' = [call EXCEPT
            !.depth = @ + 1,
            !.args = Obj([k \in {key} \cup beside |->
                            IF k = key THEN call.args ELSE Str("visible")])]
  /\ UNCHANGED <<rmVars, whVars, stopVars, config, fixedVars, sessions,
                 lastResponse, files, compress, wrapper>>

\* sanitizeWebhookPayload is called with the payload, and again with what
\* it returned
SanitizeCalled ==
  /\ call.fn = "sanitizeWebhookPayload"
  /\ ~call.result.called
  /\ call' = [call EXCEPT !.result =
       [once |-> SanitizeWebhookPayload(call.args),
        twice |-> SanitizeWebhookPayload(SanitizeWebhookPayload(call.args)),
        called |-> TRUE]]
  /\ UNCHANGED <<rmVars, whVars, stopVars, config, fixedVars, sessions,
                 lastResponse, files, compress, wrapper>>

\* ---- S3Uploader.generateS3Key ----------------------------------------------
\* A template is a sequence of pieces, as the pattern /\{\{(\w+)\}\}/g divides
\* it: a piece [kind |-> "token", text |-> name] is a match '{{name}}', a
\* piece [kind |-> "text", text |-> s] is the text s between two matches.  A
\* value of connection.token.meta is [type, str], str being the value as a
\* string.

Text(s) == [kind |-> "text", text |-> s]

Token(name) == [kind |-> "token", text |-> name]

\* path.basename(filePath), filePath being a sequence of components
Basename(filePath) == filePath[Len(filePath)]

\* what meta[key] is for a key meta does not have: undefined, or for the
\* names every object inherits, a function
Inherited(key) ==
  IF key \in {"constructor", "toString"}
  THEN [type |-> "function", str |-> "function Object() { [native code] }"]
  ELSE [type |-> "undefined", str |-> "undefined"]

\* meta[key]
Get(meta, key) == IF key \in DOMAIN meta THEN meta[key] ELSE Inherited(key)

\* the truth value of v in a condition
Truthy(v) ==
  CASE v.type = "undefined" -> FALSE
    [] v.type = "string" -> v.str # ""
    [] v.type = "number" -> v.str # "0"
    [] OTHER -> TRUE

\* the text of the match '{{name}}'
Match(name) == "{{" \o name \o "}}"

\* generateS3Key: the callback of keyTemplate.replace
Replacement(name, meta, filename) ==
  IF name = "filename"
  THEN filename
  ELSE IF Truthy(Get(meta, name))
       THEN Get(meta, name).str
       ELSE Match(name)

\* generateS3Key: the template used: s3_key_template, or when it is not set
\* (or empty) one of the two default templates, with the file name in it
KeyTemplate(template, meta, filename) ==
  IF template # <<>>
  THEN template
  ELSE IF Truthy(Get(meta, "userId"))
       THEN <<Text("recordings/"), Token("userId"), Text("/" \o filename)>>
       ELSE <<Text("recordings/" \o filename)>>

\* keyTemplate.replace(/\{\{(\w+)\}\}/g, callback): the pieces, each match
\* replaced by what the callback returns for it, put together
RECURSIVE Replace(_, _, _)
Replace(pieces, meta, filename) ==
  IF pieces = <<>>
  THEN ""
  ELSE (IF Head(pieces).kind = "token"
        THEN Replacement(Head(pieces).text, meta, filename)
        ELSE Head(pieces).text) \o Replace(Tail(pieces), meta, filename)

\* S3Uploader.generateS3Key(filePath, connection), with s3_key_template and
\* connection.token.meta
GenerateS3Key(template, meta, filePath) ==
  Replace(KeyTemplate(template, meta, Basename(filePath)), meta, Basename(filePath))

\* the pieces of the templates: text, the tokens of the metadata fields and
\* of the file name, a token no connection has a field for, a token with the
\* name of a method every object has, and text that looks like a token but
\* has a character the pattern does not match
Pieces ==
  {Text("recordings/"), Text("/"), Text("{{user-id}}"),
   Token("userId"), Token("filename"), Token("missing"), Token("constructor")}

\* the metadata of the connections: userId absent, a name, the empty string
\* or the number 0
Metas ==
  {[k \in {} |-> Null]} \cup
  {[k \in {"userId"} |-> v] :
     v \in {[type |-> "string", str |-> "u1"], [type |-> "string", str |-> ""],
            [type |-> "number", str |-> "0"]}}

\* no destination was computed yet
NoSaved == [bucket |-> NoBucket, key |-> ""]

\* generateS3Key is called
GenerateKeyCalled ==
  /\ call.fn = "generateS3Key"
  /\ ~call.called
  /\ call' = [call EXCEPT !.called = TRUE,
                          !.result = GenerateS3Key(call.template, call.meta, call.filePath)]
  /\ UNCHANGED <<rmVars, whVars, stopVars, config, fixedVars, sessions,
                 lastResponse, files, compress, wrapper>>

\* a piece is added to the template before the call
TemplateExtended ==
  /\ call.fn = "generateS3Key"
  /\ ~call.called
  /\ Len(call.template) < MaxPieces
  /\ \E piece \in Pieces : call' = [call EXCEPT !.template = Append(@, piece)]
  /\ UNCHANGED <<rmVars, whVars, stopVars, config, fixedVars, sessions,
                 lastResponse, files, compress, wrapper>>

\* ---- WebhookManager.sendWebhook: the options of the request -----------------
\* A configuration value is [type, str]; the value of webhook_headers, when
\* set, is an object whose field `fields` maps header names to their values.

\* the value of a configuration key that is not set
Undefined == [type |-> "undefined", str |-> "undefined"]

\* a configuration value that is the string s
Value(s) == [type |-> "string", str |-> s]

\* a section of the configuration with the keys of fields
Section(fields) == [type |-> "object", str |-> "[object Object]", fields |-> fields]

\* options.auth was not assigned
NoAuth == [username |-> Undefined, password |-> Undefined]

\* sendWebhook: the headers of the options literal
BaseHeaders ==
  [name \in {"Content-Type", "User-Agent"} |->
     IF name = "Content-Type" THEN "application/json" ELSE "guacamole-lite-server/1.0.0"]

\* Object.assign(target, source) on objects taken as functions
ObjectAssign(target, source) == source @@ target

\* sendWebhook: the headers after the webhook_headers of the configuration,
\* if any, were copied over those of the literal
CustomHeaders(cfg) ==
  IF Truthy(cfg.webhook_headers)
  THEN ObjectAssign(BaseHeaders, cfg.webhook_headers.fields)
  ELSE BaseHeaders

\* mutant: the bearer header is attached whether a token is configured or not
AttachesBearerAnyToken(cfg) == cfg.webhook_auth_type = Value("bearer")

\* sendWebhook: the test of the bearer branch
AttachesBearer(cfg) ==
  cfg.webhook_auth_type = Value("bearer") /\ Truthy(cfg.webhook_auth_token)

\* sendWebhook: the test of the basic branch, reached when the bearer test fails
AttachesBasic(cfg) ==
  /\ cfg.webhook_auth_type = Value("basic")
  /\ Truthy(cfg.webhook_auth_username)
  /\ Truthy(cfg.webhook_auth_password)

\* sendWebhook up to await axios(options): the headers and the auth of the
\* options it hands to axios, under configuration cfg
RequestOptions(cfg) ==
  IF AttachesBearer(cfg)
  THEN [headers |-> ObjectAssign(CustomHeaders(cfg),
                      [name \in {"Authorization"} |-> "Bearer " \o cfg.webhook_auth_token.str]),
        auth |-> NoAuth]
  ELSE IF AttachesBasic(cfg)
       THEN [headers |-> CustomHeaders(cfg),
             auth |-> [username |-> cfg.webhook_auth_username,
                       password |-> cfg.webhook_auth_password]]
       ELSE [headers |-> CustomHeaders(cfg), auth |-> NoAuth]

\* the values of webhook_auth_type: not set, the three modes, and a mode
\* sendWebhook does not know
AuthTypes == {Undefined, Value("none"), Value("bearer"), Value("basic"), Value("digest")}

\* the sections [webhook_headers] of the configuration: none, one with a
\* header of its own, one that names Authorization
HeaderSections ==
  {Undefined,
   Section([name \in {"X-Source"} |-> "guac"]),
   Section([name \in {"Authorization"} |-> "Custom abc"])}

\* the configurations sendWebhook is called under
AuthConfigs ==
  [webhook_auth_type : AuthTypes,
   webhook_auth_token : {Undefined, Value("my-token"), [type |-> "number", str |-> "0"]},
   webhook_auth_username : {Undefined, Value("user")},
   webhook_auth_password : {Undefined, Value("pass")},
   webhook_headers : HeaderSections]

\* sendWebhook is called: its options are built
SendWebhookCalled ==
  /\ call.fn = "sendWebhook"
  /\ ~call.called
  /\ call' = [call EXCEPT !.called = TRUE, !.options = RequestOptions(call.config)]
  /\ UNCHANGED <<rmVars, whVars, stopVars, config, fixedVars, sessions,
                 lastResponse, files, compress, wrapper>>

\* ---- GuacamoleLiteServer.handleSessionClose --------------------------------
\* A session at "open" was opened with recording on: connection.recordingPath
\* is set.

\* mutant: handleSessionClose goes to handleRecordingEnd without calling
\* sendSessionEnded first
SessionCloseSkipsEnded(c) ==
  /\ sessions[c].pc = "open"
  /\ TasksCreated + 3 <= MaxTasks
  /\ UNCHANGED whVars
  /\ sessions' = [sessions EXCEPT ![c] =
                    IF RecordingMissing(sessions[c])
                    THEN [RecordingEndCalled(c) EXCEPT !.pc = "closed", !.inMap = FALSE]
                    ELSE RecordingEndCalled(c)]
  /\ UNCHANGED <<rmVars, stopVars, config, fixedVars, obsVars>>

\* handleSessionClose(connection, sessionId) is called for connection c:
\* sendSessionEnded, then handleRecordingEnd up to await compressRecording;
\* when handleRecordingEnd returns null at once, the connection is removed
\* from the map
SessionClose(c) ==
  /\ sessions[c].pc = "open"
  /\ TasksCreated + 3 <= MaxTasks
  /\ SendEvent(Payload("session_ended", c, NoBucket))
  /\ sessions' = [sessions EXCEPT ![c] =
                    IF RecordingMissing(sessions[c])
                    THEN [RecordingEndCalled(c) EXCEPT !.pc = "closed", !.inMap = FALSE]
                    ELSE RecordingEndCalled(c)]
  /\ UNCHANGED <<rmVars, stopVars, config, fixedVars, obsVars>>

\* compressRecording resolves: handleRecordingEnd calls queueForUpload if the
\* storage is 's3' and returns the path; handleSessionClose then, for storage
\* 's3', calls getBucket and, unless that throws, sendRecordingSaved, and
\* removes the connection from the map.  When getBucket throws, the catch
\* block of handleSessionClose logs the error.
CompressDone(c) ==
  /\ sessions[c].pc = "compress"
  /\ RecordingEndResumes(c)
  /\ IF config.recordings_storage = "s3"
     THEN IF GetBucket(sessions[c], config) = NoBucket
          THEN /\ sessions' = [sessions EXCEPT ![c].pc = "caught", ![c].returned = "path"]
               /\ UNCHANGED whVars
          ELSE /\ sessions' = [sessions EXCEPT ![c].pc = "closed", ![c].returned = "path",
                                               ![c].inMap = FALSE]
               /\ SendEvent(Payload("recording_saved", c, GetBucket(sessions[c], config)))
     ELSE /\ sessions' = [sessions EXCEPT ![c].pc = "closed", ![c].returned = "path",
                                          ![c].inMap = FALSE]
          /\ UNCHANGED whVars
  /\ UNCHANGED <<stopVars, config, fixedVars, obsVars>>

\* ---- handleSessionClose: the bucket and the key of recording_saved ---------

\* the components of a path put together with '/'
RECURSIVE Join(_)
Join(components) ==
  IF components = <<>>
  THEN ""
  ELSE IF Len(components) = 1
       THEN Head(components)
       ELSE Head(components) \o "/" \o Join(Tail(components))

\* handleSessionClose: processedPath.replace(recordings_path, '').replace(/^\//, ''),
\* the paths being sequences of components: the path below the recordings
\* directory, or the whole path when it does not lie in that directory
SavedKey(processedPath, recordingsPath) ==
  IF /\ Len(processedPath) >= Len(recordingsPath)
     /\ SubSeq(processedPath, 1, Len(recordingsPath)) = recordingsPath
  THEN Join(SubSeq(processedPath, Len(recordingsPath) + 1, Len(processedPath)))
  ELSE Join(processedPath)

\* config.recordings_path of the example configuration, /data/recordings
RecordingsPath == <<"data", "recordings">>

\* the paths of the recordings below recordings_path: a file name, or a
\* file name in a directory of its own
RecordingFiles == {<<"test.guac">>, <<"u1", "test.guac">>}

\* handleSessionClose after handleRecordingEnd has returned the path: the
\* bucket and the key it hands to sendRecordingSaved
SavedDestinationComputed ==
  /\ call.fn = "generateS3Key"
  /\ call.saved = NoSaved
  /\ call' = [call EXCEPT !.saved =
                [bucket |-> GetBucket(call.connection, config),
                 key |-> SavedKey(call.filePath, RecordingsPath)]]
  /\ UNCHANGED <<rmVars, whVars, stopVars, config, fixedVars, sessions,
                 lastResponse, files, compress, wrapper>>

\* S3Uploader.upload up to its await, in the attempt of the upload task of
\* the recording: the bucket and the key it hands to performUpload
UploadDestinationComputed ==
  /\ call.fn = "generateS3Key"
  /\ call.called
  /\ call.upload = NoSaved
  /\ call' = [call EXCEPT !.upload =
                [bucket |-> GetBucket(call.connection, config), key |-> call.result]]
  /\ UNCHANGED <<rmVars, whVars, stopVars, config, fixedVars, sessions,
                 lastResponse, files, compress, wrapper>>

\* ---- GuacamoleLiteServer.handleSessionOpen, handleConnectionError ----------

\* handleSessionOpen(connection, sessionId) is called for connection c, which
\* the 'connection' handler has put in the map: sendSessionStarted, and, when
\* the token or the configuration asks for a recording, handleRecordingStart
\* up to await Utils.ensureDirectoryExists; else the session is open without
\* a recordingPath.  (The await of sendSessionStarted, an async function with
\* no await of its own, resumes in the same turn of the event loop.)
SessionOpen(c) ==
  /\ sessions[c].pc = "new"
  /\ TasksCreated < MaxTasks
  /\ SendEvent(Payload("session_started", c, NoBucket))
  /\ \E recording \in BOOLEAN :
       sessions' = [sessions EXCEPT ![c].pc = IF recording THEN "starting" ELSE "plain"]
  /\ UNCHANGED <<rmVars, stopVars, config, fixedVars, obsVars>>

\* handleRecordingStart returns the path and the file name: handleSessionOpen
\* sets connection.recordingPath
RecordingStarted(c) ==
  /\ sessions[c].pc = "starting"
  /\ sessions' = [sessions EXCEPT ![c].pc = "open"]
  /\ UNCHANGED <<rmVars, whVars, stopVars, config, fixedVars, obsVars>>

\* ensureDirectoryExists rejects: handleRecordingStart logs and returns null,
\* and the session is open without a recordingPath
RecordingStartFails(c) ==
  /\ sessions[c].pc = "starting"
  /\ sessions' = [sessions EXCEPT ![c].pc = "plain"]
  /\ UNCHANGED <<rmVars, whVars, stopVars, config, fixedVars, obsVars>>

\* handleSessionClose(connection, sessionId) for a connection c without a
\* recordingPath: sendSessionEnded, and the connection is removed from the map
PlainSessionClose(c) ==
  /\ sessions[c].pc = "plain"
  /\ TasksCreated < MaxTasks
  /\ SendEvent(Payload("session_ended", c, NoBucket))
  /\ sessions' = [sessions EXCEPT ![c].pc = "closed", ![c].inMap = FALSE]
  /\ UNCHANGED <<rmVars, stopVars, config, fixedVars, obsVars>>

\* handleConnectionError(connection, error) is called for connection c: the
\* connection is removed from the map
ConnectionError(c) ==
  /\ sessions[c].inMap
  /\ sessions' = [sessions EXCEPT ![c].inMap = FALSE]
  /\ UNCHANGED <<rmVars, whVars, stopVars, config, fixedVars, obsVars>>

\* the configuration object is changed while the server runs: another default
\* bucket and another webhook URL
Reconfigure ==
  /\ config.webhook_url = "urlA"
  /\ config' = [config EXCEPT !.s3_default_bucket = "bucketB", !.webhook_url = "urlB"]
  /\ UNCHANGED <<rmVars, whVars, stopVars, fixedVars, sessions, obsVars>>

\* ---- time -----------------------------------------------------------------

TickLoop(l) == [l EXCEPT !.timer = Dec(@)]

\* one second passes
Tick ==
  /\ uploadLoops' = [i \in DOMAIN uploadLoops |-> TickLoop(uploadLoops[i])]
  /\ whLoops' = [i \in DOMAIN whLoops |-> TickLoop(whLoops[i])]
  /\ webhooks' = [i \in DOMAIN webhooks |-> [webhooks[i] EXCEPT !.nextRetry = Dec(@)]]
  /\ cleanupTimer' = Dec(cleanupTimer)
  /\ UNCHANGED <<uploads, uploadQueue, rmProcessing, uploadCalls, uploaded, uploadDropped,
                 unlinked, transfers, uploadDest,
                 queue, whProcessing, sendCalls, sent, sendDropped, sendUrl,
                 stopPc, serverRunning, connectionsOpen, rmCleanup, whCleanup,
                 envVars>>

\* ---- specification --------------------------------------------------------

\* a configuration with S3 credentials, a default bucket and a webhook URL.
\* Init starts the server with it: a call of uploadRecording can then both
\* resolve and reject, so the queues behave under Spec in every way they can
\* under any configuration.  InitPipeline below draws the configuration from
\* Configs, and NextPipeline adds the calls that resolve after a retry of the
\* wrapper, which differ from UploadResolves in the count of transfers only.
DeployedConfig ==
  [s3_default_bucket |-> "bucketA", recordings_delete_local_after_upload |-> FALSE,
   webhook_enable |-> TRUE, webhook_url |-> "urlA", recordings_storage |-> "s3",
   recordings_compression_format |-> "gzip"]

Init ==
  /\ uploads = <<>>
  /\ uploadQueue = <<>>
  /\ rmProcessing = FALSE
  /\ uploadLoops = <<>>
  /\ webhooks = <<>>
  /\ queue = <<>>
  /\ whProcessing = FALSE
  /\ whLoops = <<>>
  /\ uploadCalls = <<>>
  /\ sendCalls = <<>>
  /\ uploaded = {}
  /\ uploadDropped = {}
  /\ sent = {}
  /\ sendDropped = {}
  /\ stopPc = "running"
  /\ serverRunning = TRUE
  /\ connectionsOpen = TRUE
  /\ rmCleanup = "none"
  /\ whCleanup = "none"
  /\ cleanupTimer = 0
  /\ unlinked = {}
  /\ transfers = <<>>
  /\ uploadDest = {}
  /\ sendUrl = {}
  /\ lastResponse = NoResponse
  /\ files = {}
  /\ compress = <<>>
  /\ wrapper = IdleWrapper(WrapperMaxRetries, 1)
  /\ call = NoCall
  /\ config = DeployedConfig
  /\ s3Initialized = TRUE
  /\ enabled = Enabled(config)
  /\ s3Uploader = TRUE
  /\ sessions = [c \in Sessions |-> [pc |-> "open", tokenBucket |-> NoBucket,
                                      recordingExists |-> TRUE, returned |-> "none",
                                      inMap |-> TRUE]]

\* the steps of the two queues: calls of their operations, settled delivery
\* attempts, fired timers, and the passing of time
NextQueues ==
  \/ QueueForUpload
  \/ DrainUploads
  \/ \E i \in DOMAIN uploadLoops : UploadResolves(i)
  \/ \E i \in DOMAIN uploadLoops : UploadRejects(i)
  \/ \E i \in DOMAIN uploadLoops : UploadSleepDone(i)
  \/ QueueWebhook
  \/ DrainWebhooks
  \/ \E i \in DOMAIN whLoops : SendResolves(i)
  \/ \E i \in DOMAIN whLoops : SendRejects(i)
  \/ \E i \in DOMAIN whLoops : PollDone(i)
  \/ Tick

\* the steps of stop()
NextStop ==
  \/ StopCall
  \/ ServerStopped
  \/ ServerStopFails
  \/ RmCleanupPoll
  \/ WhCleanupPoll

Next == NextQueues \/ NextStop

Spec == Init /\ [][Next]_vars

\* every task's delivery attempt settles, every timer fires, time passes
Fairness ==
  /\ WF_vars(\E i \in DOMAIN uploadLoops : UploadResolves(i) \/ UploadRejects(i))
  /\ WF_vars(\E i \in DOMAIN uploadLoops : UploadSleepDone(i))
  /\ WF_vars(\E i \in DOMAIN whLoops : SendResolves(i) \/ SendRejects(i))
  /\ WF_vars(\E i \in DOMAIN whLoops : PollDone(i))
  /\ WF_vars(Tick)

\* The queues on their own, without a stop() in progress (the steps of stop()
\* leave every variable of the queues unchanged), under Fairness.
FairSpec == Init /\ [][NextQueues]_vars /\ Fairness

\* Task objects a caller pushes on a queue itself, as the tests of
\* processUploadQueue do (uploadQueue.push(upload), then processUploadQueue()):
\* attempts and maxAttempts are the caller's, with attempts below the ceiling.
PushedCeilings == {UploadMaxAttempts - 1, UploadMaxAttempts}

PushedUploads ==
  {[attempts |-> a, maxAttempts |-> m, connection |-> c] :
     a \in 0..UploadMaxAttempts, m \in PushedCeilings, c \in Sessions}

PushedWebhooks ==
  {[attempts |-> a, maxAttempts |-> m, nextRetry |-> DateNow,
    payload |-> Payload("session_started", c, NoBucket)] :
     a \in 0..WebhookMaxAttempts, m \in PushedCeilings, c \in Sessions}

SeqsUpTo(S, n) == UNION {[1..k -> S] : k \in 0..n}

InitPushed ==
  /\ uploads \in SeqsUpTo({t \in PushedUploads : t.attempts < t.maxAttempts}, MaxPushed)
  /\ uploadQueue = [i \in DOMAIN uploads |-> i]
  /\ rmProcessing = FALSE
  /\ uploadLoops = <<>>
  /\ webhooks \in SeqsUpTo({t \in PushedWebhooks : t.attempts < t.maxAttempts}, MaxPushed)
  /\ queue = [i \in DOMAIN webhooks |-> i]
  /\ whProcessing = FALSE
  /\ whLoops = <<>>
  /\ uploadCalls = [i \in DOMAIN uploads |-> 0]
  /\ sendCalls = [i \in DOMAIN webhooks |-> 0]
  /\ uploaded = {}
  /\ uploadDropped = {}
  /\ sent = {}
  /\ sendDropped = {}
  /\ stopPc = "running"
  /\ serverRunning = TRUE
  /\ connectionsOpen = TRUE
  /\ rmCleanup = "none"
  /\ whCleanup = "none"
  /\ cleanupTimer = 0
  /\ unlinked = {}
  /\ transfers = [i \in DOMAIN uploads |-> 0]
  /\ uploadDest = {}
  /\ sendUrl = {}
  /\ lastResponse = NoResponse
  /\ files = {}
  /\ compress = <<>>
  /\ wrapper = IdleWrapper(WrapperMaxRetries, 1)
  /\ call = NoCall
  /\ config = DeployedConfig
  /\ s3Initialized = TRUE
  /\ enabled = Enabled(config)
  /\ s3Uploader = TRUE
  /\ sessions = [c \in Sessions |-> [pc |-> "open", tokenBucket |-> NoBucket,
                                      recordingExists |-> TRUE, returned |-> "none",
                                      inMap |-> TRUE]]

SpecPushed == InitPushed /\ [][NextQueues]_vars

\* The pipeline of a session: tasks reach the queues through
\* handleSessionClose only, on a server started with any configuration of
\* Configs, with or without S3 credentials, for connections with or without
\* a bucket in their token.
Configs ==
  [s3_default_bucket : {NoBucket, "bucketA"},
   recordings_delete_local_after_upload : BOOLEAN,
   webhook_enable : BOOLEAN,
   webhook_url : {NoUrl, "urlA"},
   recordings_storage : {"s3", "local"},
   recordings_compression_format : {"gzip"}]

InitPipeline ==
  /\ uploads = <<>>
  /\ uploadQueue = <<>>
  /\ rmProcessing = FALSE
  /\ uploadLoops = <<>>
  /\ webhooks = <<>>
  /\ queue = <<>>
  /\ whProcessing = FALSE
  /\ whLoops = <<>>
  /\ uploadCalls = <<>>
  /\ sendCalls = <<>>
  /\ uploaded = {}
  /\ uploadDropped = {}
  /\ sent = {}
  /\ sendDropped = {}
  /\ stopPc = "running"
  /\ serverRunning = TRUE
  /\ connectionsOpen = TRUE
  /\ rmCleanup = "none"
  /\ whCleanup = "none"
  /\ cleanupTimer = 0
  /\ unlinked = {}
  /\ transfers = <<>>
  /\ uploadDest = {}
  /\ sendUrl = {}
  /\ lastResponse = NoResponse
  /\ files = {}
  /\ compress = <<>>
  /\ wrapper = IdleWrapper(WrapperMaxRetries, 1)
  /\ call = NoCall
  /\ config \in Configs
  /\ s3Initialized \in BOOLEAN
  /\ enabled = Enabled(config)
  /\ s3Uploader = TRUE
  /\ sessions \in [Sessions -> [pc : {"open"}, tokenBucket : {NoBucket, "bucketT"},
                                 recordingExists : BOOLEAN, returned : {"none"},
                                 inMap : {TRUE}]]

NextPipeline ==
  \/ \E c \in Sessions : SessionClose(c)
  \/ \E c \in Sessions : CompressDone(c)
  \/ Reconfigure
  \/ \E i \in DOMAIN uploadLoops : UploadResolves(i)
  \/ \E i \in DOMAIN uploadLoops : UploadResolvesRetried(i)
  \/ \E i \in DOMAIN uploadLoops : UploadRejects(i)
  \/ \E i \in DOMAIN uploadLoops : UploadSleepDone(i)
  \/ \E i \in DOMAIN whLoops : SendResolves(i)
  \/ \E i \in DOMAIN whLoops : SendRejects(i)
  \/ \E i \in DOMAIN whLoops : PollDone(i)
  \/ Tick

SpecPipeline == InitPipeline /\ [][NextPipeline]_vars

\* The server with notifications disabled: sessions are opened
\* (handleSessionOpen calls sendSessionStarted) and closed on a server whose
\* configuration has webhook_enable off or no webhook_url.
DisabledConfigs == {cfg \in Configs : ~cfg.webhook_enable \/ cfg.webhook_url = NoUrl}

InitDisabled ==
  /\ InitPipeline
  /\ config \in DisabledConfigs

NextDisabled ==
  \/ QueueWebhook
  \/ \E c \in Sessions : SessionClose(c)
  \/ \E c \in Sessions : CompressDone(c)
  \/ Reconfigure
  \/ \E i \in DOMAIN uploadLoops : UploadResolves(i)
  \/ \E i \in DOMAIN uploadLoops : UploadRejects(i)
  \/ \E i \in DOMAIN uploadLoops : UploadSleepDone(i)
  \/ Tick

SpecDisabled == InitDisabled /\ [][NextDisabled]_vars

\* the queues empty, no call in progress, the server running
QuietServer ==
  /\ uploads = <<>>
  /\ uploadQueue = <<>>
  /\ rmProcessing = FALSE
  /\ uploadLoops = <<>>
  /\ webhooks = <<>>
  /\ queue = <<>>
  /\ whProcessing = FALSE
  /\ whLoops = <<>>
  /\ uploadCalls = <<>>
  /\ sendCalls = <<>>
  /\ uploaded = {}
  /\ uploadDropped = {}
  /\ sent = {}
  /\ sendDropped = {}
  /\ stopPc = "running"
  /\ serverRunning = TRUE
  /\ connectionsOpen = TRUE
  /\ rmCleanup = "none"
  /\ whCleanup = "none"
  /\ cleanupTimer = 0
  /\ unlinked = {}
  /\ transfers = <<>>
  /\ uploadDest = {}
  /\ sendUrl = {}
  /\ lastResponse = NoResponse
  /\ s3Initialized = TRUE
  /\ s3Uploader = TRUE
  /\ sessions = [c \in Sessions |-> [pc |-> "open", tokenBucket |-> NoBucket,
                                      recordingExists |-> TRUE, returned |-> "none",
                                      inMap |-> TRUE]]

\* compressRecording on its own: the files of the recordings are compressed
\* side by side, under each value of recordings_compression_format: not set,
\* the three values the example configuration names, and one it does not
\* name (the configuration loader accepts any value).
Formats == {"", "none", "gzip", "zip", "bzip2"}

InitCompress ==
  /\ QuietServer
  /\ config \in {[DeployedConfig EXCEPT !.recordings_compression_format = f] : f \in Formats}
  /\ enabled = Enabled(config)
  /\ files = {InputPath(r) : r \in Recordings}
  /\ compress = [r \in Recordings |->
                   [pc |-> "idle", returned |-> NoPath, transforms |-> 0,
                    finished |-> FALSE, failed |-> FALSE]]
  /\ wrapper = IdleWrapper(WrapperMaxRetries, 1)
  /\ call = NoCall

NextCompress ==
  \/ \E r \in Recordings : CompressRecording(r)
  \/ \E r \in Recordings : WriteFinishes(r)
  \/ \E r \in Recordings : WriteFails(r)
  \/ \E r \in Recordings : UnlinkSettles(r)

SpecCompress == InitCompress /\ [][NextCompress]_vars

\* createRetryWrapper on its own: a function wrapped with maxRetries from 0
\* to MaxRetriesBound and a baseDelay of BaseDelays is called once; each
\* call of fn it makes may resolve or throw one of Errors.
BaseDelays == {1, 2}

InitWrapper ==
  /\ QuietServer
  /\ config = DeployedConfig
  /\ enabled = Enabled(config)
  /\ files = {}
  /\ compress = <<>>
  /\ wrapper \in {IdleWrapper(m, d) : m \in 0..MaxRetriesBound, d \in BaseDelays}
  /\ call = NoCall

NextWrapper ==
  \/ WrappedCall
  \/ FnResolves
  \/ FnRejects
  \/ WrapperTick
  \/ WrapperTimerFires

SpecWrapper == InitWrapper /\ [][NextWrapper]_vars

\* sanitizeWebhookPayload on its own: it is called with a string, with null,
\* and with objects nested up to MaxDepth deep.
InitSanitize ==
  /\ QuietServer
  /\ config = DeployedConfig
  /\ enabled = Enabled(config)
  /\ files = {}
  /\ compress = <<>>
  /\ wrapper = IdleWrapper(WrapperMaxRetries, 1)
  /\ call \in {[fn |-> "sanitizeWebhookPayload", args |-> v,
                 depth |-> IF v.type = "object" THEN 1 ELSE 0, result |-> NoResult] :
                v \in Leaves \cup FlatObjects}

NextSanitize ==
  \/ NestPayload
  \/ SanitizeCalled

SpecSanitize == InitSanitize /\ [][NextSanitize]_vars

\* generateS3Key on its own: it is called for the recording test.guac with
\* no template and with every template of up to MaxPieces of Pieces, for
\* each of the connections of Metas.
InitKey ==
  /\ QuietServer
  /\ config = DeployedConfig
  /\ enabled = Enabled(config)
  /\ files = {}
  /\ compress = <<>>
  /\ wrapper = IdleWrapper(WrapperMaxRetries, 1)
  /\ call \in {[fn |-> "generateS3Key", template |-> <<>>, meta |-> m,
                 filePath |-> <<"path", "to", "test.guac">>,
                 called |-> FALSE, result |-> ""] : m \in Metas}

NextKey ==
  \/ TemplateExtended
  \/ GenerateKeyCalled

SpecKey == InitKey /\ [][NextKey]_vars

\* The WebhookManager on its own, with the response of the receiver to each
\* request: any of HttpStatuses, or none.
NextResponses ==
  \/ QueueWebhook
  \/ DrainWebhooks
  \/ \E i \in DOMAIN whLoops : SendResponds(i)
  \/ \E i \in DOMAIN whLoops : PollDone(i)
  \/ Tick

SpecResponses == Init /\ [][NextResponses]_vars

\* The RecordingManager on its own: handleRecordingEnd is called for
\* connections with and without a recording file, on a manager constructed
\* with or without an uploader, for storage 's3' and 'local'.
InitRecordingEnd ==
  /\ uploads = <<>>
  /\ uploadQueue = <<>>
  /\ rmProcessing = FALSE
  /\ uploadLoops = <<>>
  /\ webhooks = <<>>
  /\ queue = <<>>
  /\ whProcessing = FALSE
  /\ whLoops = <<>>
  /\ uploadCalls = <<>>
  /\ sendCalls = <<>>
  /\ uploaded = {}
  /\ uploadDropped = {}
  /\ sent = {}
  /\ sendDropped = {}
  /\ stopPc = "running"
  /\ serverRunning = TRUE
  /\ connectionsOpen = TRUE
  /\ rmCleanup = "none"
  /\ whCleanup = "none"
  /\ cleanupTimer = 0
  /\ unlinked = {}
  /\ transfers = <<>>
  /\ uploadDest = {}
  /\ sendUrl = {}
  /\ lastResponse = NoResponse
  /\ files = {}
  /\ compress = <<>>
  /\ wrapper = IdleWrapper(WrapperMaxRetries, 1)
  /\ call = NoCall
  /\ config \in {cfg \in Configs : cfg.webhook_enable /\ cfg.webhook_url = "urlA"}
  /\ s3Uploader \in BOOLEAN
  /\ s3Initialized \in {b \in BOOLEAN : b => s3Uploader}
  /\ enabled = Enabled(config)
  /\ sessions \in [Sessions -> [pc : {"open"}, tokenBucket : {NoBucket, "bucketT"},
                                 recordingExists : BOOLEAN, returned : {"none"},
                                 inMap : {TRUE}]]

NextRecordingEnd ==
  \/ \E c \in Sessions : HandleRecordingEnd(c)
  \/ \E c \in Sessions : RecordingCompressed(c)
  \/ \E i \in DOMAIN uploadLoops : UploadResolves(i)
  \/ \E i \in DOMAIN uploadLoops : UploadRejects(i)
  \/ \E i \in DOMAIN uploadLoops : UploadSleepDone(i)
  \/ Tick

SpecRecordingEnd == InitRecordingEnd /\ [][NextRecordingEnd]_vars

\* sendWebhook on its own: the options of the request under each
\* configuration of AuthConfigs.
InitAuth ==
  /\ QuietServer
  /\ config = DeployedConfig
  /\ enabled = Enabled(config)
  /\ files = {}
  /\ compress = <<>>
  /\ wrapper = IdleWrapper(WrapperMaxRetries, 1)
  /\ call \in {[fn |-> "sendWebhook", config |-> cfg, called |-> FALSE,
                 options |-> [headers |-> <<>>, auth |-> NoAuth]] : cfg \in AuthConfigs}

NextAuth == SendWebhookCalled

SpecAuth == InitAuth /\ [][NextAuth]_vars

\* The backoff of one notification task up to its cap.  processQueue reads
\* the ceiling from the task object, so the object on the queue when
\* processQueue is called has a ceiling of 1 to MaxCeiling; each of its
\* attempts may fail.
InitBackoff ==
  /\ uploads = <<>>
  /\ uploadQueue = <<>>
  /\ rmProcessing = FALSE
  /\ uploadLoops = <<>>
  /\ webhooks \in {<<[attempts |-> 0, maxAttempts |-> m, nextRetry |-> DateNow,
                      payload |-> Payload("session_started", 1, NoBucket)]>> :
                     m \in 1..MaxCeiling}
  /\ queue = <<1>>
  /\ whProcessing = FALSE
  /\ whLoops = <<>>
  /\ uploadCalls = <<>>
  /\ sendCalls = <<0>>
  /\ uploaded = {}
  /\ uploadDropped = {}
  /\ sent = {}
  /\ sendDropped = {}
  /\ stopPc = "running"
  /\ serverRunning = TRUE
  /\ connectionsOpen = TRUE
  /\ rmCleanup = "none"
  /\ whCleanup = "none"
  /\ cleanupTimer = 0
  /\ unlinked = {}
  /\ transfers = <<>>
  /\ uploadDest = {}
  /\ sendUrl = {}
  /\ lastResponse = NoResponse
  /\ files = {}
  /\ compress = <<>>
  /\ wrapper = IdleWrapper(WrapperMaxRetries, 1)
  /\ call = [fn |-> "backoff", delays |-> <<>>]
  /\ config = DeployedConfig
  /\ s3Initialized = TRUE
  /\ enabled = Enabled(config)
  /\ s3Uploader = TRUE
  /\ sessions = [c \in Sessions |-> [pc |-> "open", tokenBucket |-> NoBucket,
                                      recordingExists |-> TRUE, returned |-> "none",
                                      inMap |-> TRUE]]

NextBackoff ==
  \/ DrainWebhooks
  \/ \E i \in DOMAIN whLoops : SendResolves(i)
  \/ \E i \in DOMAIN whLoops : SendFails(i)
  \/ \E i \in DOMAIN whLoops : PollDone(i)
  \/ Tick

SpecBackoff == InitBackoff /\ [][NextBackoff]_vars

\* The life of a connection: the server is started with a configuration of
\* Configs and observed from the 'connection' event of a new connection
\* (which puts it in the map) or from a session that is open with its
\* recording started; the session is opened and closed, and the connection
\* may report an error at any time.
InitSession ==
  /\ uploads = <<>>
  /\ uploadQueue = <<>>
  /\ rmProcessing = FALSE
  /\ uploadLoops = <<>>
  /\ webhooks = <<>>
  /\ queue = <<>>
  /\ whProcessing = FALSE
  /\ whLoops = <<>>
  /\ uploadCalls = <<>>
  /\ sendCalls = <<>>
  /\ uploaded = {}
  /\ uploadDropped = {}
  /\ sent = {}
  /\ sendDropped = {}
  /\ stopPc = "running"
  /\ serverRunning = TRUE
  /\ connectionsOpen = TRUE
  /\ rmCleanup = "none"
  /\ whCleanup = "none"
  /\ cleanupTimer = 0
  /\ unlinked = {}
  /\ transfers = <<>>
  /\ uploadDest = {}
  /\ sendUrl = {}
  /\ lastResponse = NoResponse
  /\ files = {}
  /\ compress = <<>>
  /\ wrapper = IdleWrapper(WrapperMaxRetries, 1)
  /\ call = NoCall
  /\ config \in {cfg \in Configs : ~cfg.recordings_delete_local_after_upload}
  /\ s3Initialized = TRUE
  /\ enabled = Enabled(config)
  /\ s3Uploader = TRUE
  /\ sessions \in [Sessions -> [pc : {"new", "open"}, tokenBucket : {NoBucket, "bucketT"},
                                 recordingExists : BOOLEAN, returned : {"none"},
                                 inMap : {TRUE}]]

NextSession ==
  \/ \E c \in Sessions : SessionOpen(c)
  \/ \E c \in Sessions : RecordingStarted(c)
  \/ \E c \in Sessions : RecordingStartFails(c)
  \/ \E c \in Sessions : SessionClose(c)
  \/ \E c \in Sessions : PlainSessionClose(c)
  \/ \E c \in Sessions : CompressDone(c)
  \/ \E c \in Sessions : ConnectionError(c)
  \/ \E i \in DOMAIN uploadLoops : UploadResolves(i)
  \/ \E i \in DOMAIN uploadLoops : UploadRejects(i)
  \/ \E i \in DOMAIN uploadLoops : UploadSleepDone(i)
  \/ \E i \in DOMAIN whLoops : SendResolves(i)
  \/ \E i \in DOMAIN whLoops : SendRejects(i)
  \/ \E i \in DOMAIN whLoops : PollDone(i)
  \/ Tick

SpecSession == InitSession /\ [][NextSession]_vars

\* The destination of a recording as handleSessionClose reports it and as
\* S3Uploader.upload computes it, for the recordings of RecordingFiles, under
\* every key template of up to MaxPieces of Pieces and for each of the
\* connections of Metas, with or without a bucket in the token.
InitSaved ==
  /\ QuietServer
  /\ config = DeployedConfig
  /\ enabled = Enabled(config)
  /\ files = {}
  /\ compress = <<>>
  /\ wrapper = IdleWrapper(WrapperMaxRetries, 1)
  /\ call \in {[fn |-> "generateS3Key", template |-> <<>>, meta |-> m,
                 filePath |-> RecordingsPath \o f,
                 called |-> FALSE, result |-> "",
                 connection |-> [tokenBucket |-> b],
                 saved |-> NoSaved, upload |-> NoSaved] :
                m \in Metas, f \in RecordingFiles, b \in {NoBucket, "bucketT"}}

NextSaved ==
  \/ TemplateExtended
  \/ GenerateKeyCalled
  \/ SavedDestinationComputed
  \/ UploadDestinationComputed

SpecSaved == InitSaved /\ [][NextSaved]_vars

\* ---- properties ------------------------------------------------------------

\* ids of the tasks whose delivery attempt is in progress
UploadsInFlight ==
  {uploadLoops[i].upload : i \in {j \in DOMAIN uploadLoops : uploadLoops[j].pc = "upload"}}

SendsInFlight ==
  {whLoops[i].webhook : i \in {j \in DOMAIN whLoops : whLoops[j].pc = "send"}}

\* C1: each queue has at most one active drain loop, whatever enqueue and
\* drain calls arrive while that loop is suspended; the processing flag is
\* set exactly while a loop is active.
C1_SingleDrainLoop ==
  /\ Len(uploadLoops) <= 1
  /\ Len(whLoops) <= 1
  /\ rmProcessing <=> (Len(uploadLoops) = 1)
  /\ whProcessing <=> (Len(whLoops) = 1)

\* a second upload was enqueued while the drain loop was active and is still
\* waiting behind the loop's backoff pause
C1_Witness ==
  /\ Len(uploadLoops) = 1
  /\ uploadLoops[1].pc = "sleep"
  /\ Len(uploads) >= 2
  /\ 2 \in Range(uploadQueue)
  /\ uploadCalls[2] = 0

\* C2: every stored task has attempts <= maxAttempts, and a task whose
\* attempts has reached maxAttempts is not in its queue: it was dropped.
C2_AttemptsWithinCeiling ==
  /\ \A id \in DOMAIN uploads :
       /\ uploads[id].attempts <= uploads[id].maxAttempts
       /\ uploads[id].attempts >= uploads[id].maxAttempts =>
            id \notin Range(uploadQueue) /\ id \in uploadDropped
  /\ \A id \in DOMAIN webhooks :
       /\ webhooks[id].attempts <= webhooks[id].maxAttempts
       /\ webhooks[id].attempts >= webhooks[id].maxAttempts =>
            id \notin Range(queue) /\ id \in sendDropped

\* a task of each queue has failed up to its ceiling
C2_Witness ==
  /\ \E id \in DOMAIN uploads : uploads[id].attempts = uploads[id].maxAttempts
  /\ \E id \in DOMAIN webhooks : webhooks[id].attempts = webhooks[id].maxAttempts

\* C3: under Fairness, every task enqueued on either queue is eventually
\* delivered or dropped at the attempt ceiling.
C3_EveryTaskSettles ==
  \A id \in 1..MaxTasks :
    /\ (id <= Len(uploads)) ~> (id \in uploaded \cup uploadDropped)
    /\ (id <= Len(webhooks)) ~> (id \in sent \cup sendDropped)

\* the second upload, enqueued while the loop was serving the first, has been
\* delivered while the first, after a failure, is still pending
C3_Witness ==
  /\ Len(uploads) >= 2
  /\ 2 \in uploaded
  /\ uploads[1].attempts > 0
  /\ 1 \notin uploaded \cup uploadDropped

\* C4: a cleanup() call resolves only in a state where its queue is empty and
\* its processing flag is false.
C4_CleanupResolvesDrained ==
  [][/\ (rmCleanup # "resolved" /\ rmCleanup' = "resolved") =>
          (Len(uploadQueue') = 0 /\ ~rmProcessing')
     /\ (whCleanup # "resolved" /\ whCleanup' = "resolved") =>
          (Len(queue') = 0 /\ ~whProcessing')]_vars

\* C5, as stated: the tunnel server is not stopped and the connections are
\* not closed before both cleanup() calls have resolved.
C5_DrainBeforeRelease ==
  (~serverRunning \/ ~connectionsOpen) =>
     (rmCleanup = "resolved" /\ whCleanup = "resolved")

\* C5, amended: stop() calls cleanup() of the upload queue only after the
\* tunnel server is stopped and the connections are closed, cleanup() of the
\* notification queue only after that of the upload queue has resolved, and
\* it ends only after both have resolved.
C5_ReleaseThenDrain ==
  /\ (rmCleanup # "none" \/ whCleanup # "none") => (~serverRunning /\ ~connectionsOpen)
  /\ whCleanup # "none" => rmCleanup = "resolved"
  /\ stopPc = "stopped" => (rmCleanup = "resolved" /\ whCleanup = "resolved")

\* stop() is waiting in cleanup() of the notification queue
C5_Witness ==
  /\ stopPc = "whCleanup"
  /\ whCleanup = "polling"
  /\ rmCleanup = "resolved"

\* C6: an upload task (ceiling 3) that has failed at most twice is not
\* dropped; delivered after two failures, uploadRecording was called exactly
\* 3 times for it; and when it is the only task, the queue is then empty and
\* the drain loop has ended.
C6_ThirdAttemptDelivers ==
  /\ \A id \in DOMAIN uploads :
       /\ uploads[id].attempts <= 2 => id \notin uploadDropped
       /\ (id \in uploaded /\ uploads[id].attempts = 2) =>
            (uploadCalls[id] = 3 /\ id \notin Range(uploadQueue))
  /\ (Len(uploads) = 1 /\ 1 \in uploaded) =>
       (uploadQueue = <<>> /\ ~rmProcessing /\ uploadLoops = <<>>)

\* the only upload task was delivered at its third attempt
C6_Witness ==
  /\ Len(uploads) = 1
  /\ 1 \in uploaded
  /\ uploads[1].attempts = 2
  /\ uploads[1].maxAttempts = 3

\* C7, as stated: a notification task with ceiling 2, stored with attempts 0,
\* whose delivery always fails (its calls of sendWebhook equal its attempts)
\* is dropped after exactly 3 calls of sendWebhook.
C7_ThreeCallsAtCeilingTwo ==
  \A id \in DOMAIN webhooks :
    (/\ webhooks[id].maxAttempts = 2
     /\ id \in sendDropped
     /\ sendCalls[id] = webhooks[id].attempts) => sendCalls[id] = 3

\* C7, amended: a notification task with ceiling 2, pushed with attempts 0,
\* whose delivery always fails is dropped after exactly 2 calls of sendWebhook
\* (the initial attempt plus 1 retry), never gets a third, is then absent
\* from the queue, and when it is the only task the queue ends empty with
\* the drain loop ended.
C7_TwoCallsAtCeilingTwo ==
  /\ \A id \in DOMAIN webhooks :
       webhooks[id].maxAttempts = 2 =>
         /\ sendCalls[id] <= 2
         /\ (id \in sendDropped /\ sendCalls[id] = webhooks[id].attempts) =>
              (sendCalls[id] = 2 /\ id \notin Range(queue) /\ id \notin SendsInFlight)
  /\ (Len(webhooks) = 1 /\ 1 \in sendDropped) =>
       (queue = <<>> /\ ~whProcessing /\ whLoops = <<>>)

\* the only notification task, with ceiling 2 and every attempt failed, was
\* dropped
C7_Witness ==
  /\ Len(webhooks) = 1
  /\ webhooks[1].maxAttempts = 2
  /\ 1 \in sendDropped
  /\ sendCalls[1] = webhooks[1].attempts

\* C8: the delivery function is never called more than maxAttempts times for
\* a task; a task whose attempts all failed is dropped after exactly
\* maxAttempts (3) calls, and from then on it is neither stored nor attempted;
\* a task with attempts = maxAttempts - 1 that is not being attempted is
\* still stored, to be attempted once more.
C8_ExactlyMaxAttemptsCalls ==
  /\ \A id \in DOMAIN uploads :
       /\ uploadCalls[id] <= uploads[id].maxAttempts
       /\ id \in uploadDropped =>
            /\ uploadCalls[id] = UploadMaxAttempts
            /\ uploads[id].attempts = uploads[id].maxAttempts
            /\ id \notin Range(uploadQueue) \cup UploadsInFlight
       /\ (uploads[id].attempts = uploads[id].maxAttempts - 1 /\ id \notin uploaded) =>
            id \in Range(uploadQueue) \cup UploadsInFlight
  /\ \A id \in DOMAIN webhooks :
       /\ sendCalls[id] <= webhooks[id].maxAttempts
       /\ id \in sendDropped =>
            /\ sendCalls[id] = WebhookMaxAttempts
            /\ webhooks[id].attempts = webhooks[id].maxAttempts
            /\ id \notin Range(queue) \cup SendsInFlight
       /\ (webhooks[id].attempts = webhooks[id].maxAttempts - 1 /\ id \notin sent) =>
            id \in Range(queue) \cup SendsInFlight

\* a task of each queue was dropped after its last failure, and time has
\* passed since without a further attempt
C8_Witness ==
  /\ uploadDropped # {}
  /\ sendDropped # {}
  /\ uploadLoops = <<>>
  /\ whLoops = <<>>

\* C9: a task whose delivery attempt succeeds is out of its queue and not
\* being attempted right after that step, and from then on its attempts
\* counter and its number of delivery calls never change and it is never
\* stored again.
C9_DeliveredTaskDropped ==
  [][/\ \A id \in DOMAIN uploads :
          /\ id \in uploaded' =>
               /\ uploads'[id].attempts = uploads[id].attempts
               /\ id \notin Range(uploadQueue') \cup UploadsInFlight'
          /\ id \in uploaded => uploadCalls'[id] = uploadCalls[id]
     /\ \A id \in DOMAIN webhooks :
          /\ id \in sent' =>
               /\ webhooks'[id].attempts = webhooks[id].attempts
               /\ id \notin Range(queue') \cup SendsInFlight'
          /\ id \in sent => sendCalls'[id] = sendCalls[id]]_vars

\* a task of each queue was delivered after an earlier failure, and the
\* drain loops have gone on to other work or ended
C9_Witness ==
  /\ \E id \in uploaded : uploads[id].attempts = 1
  /\ \E id \in sent : webhooks[id].attempts = 1

\* C10: a failed attempt raises the task's attempts by exactly 1, and below
\* the ceiling the task is appended at the tail of its queue, behind all
\* tasks stored there, and is not attempted in the same step.
C10_FailedTaskToTail ==
  [][/\ \A id \in DOMAIN uploads :
          uploads'[id].attempts # uploads[id].attempts =>
            /\ id \in UploadsInFlight
            /\ uploads'[id].attempts = uploads[id].attempts + 1
            /\ uploads'[id].attempts < uploads'[id].maxAttempts =>
                 /\ uploadQueue' = Append(uploadQueue, id)
                 /\ id \notin UploadsInFlight'
     /\ \A id \in DOMAIN webhooks :
          webhooks'[id].attempts # webhooks[id].attempts =>
            /\ id \in SendsInFlight
            /\ webhooks'[id].attempts = webhooks[id].attempts + 1
            /\ webhooks'[id].attempts < webhooks'[id].maxAttempts =>
                 /\ queue' \in {Append(queue, id), Tail(Append(queue, id))}
                 /\ queue'[Len(queue')] = id
                 /\ id \notin SendsInFlight']_vars

\* the first upload failed while a second was stored: it now stands behind
\* the second, with attempts 1, and the loop is in its backoff pause
C10_Witness ==
  /\ uploadQueue = <<2, 1>>
  /\ uploads[1].attempts = 1
  /\ uploadCalls[2] = 0
  /\ Len(uploadLoops) = 1
  /\ uploadLoops[1].pc = "sleep"

\* number of delivery calls made for task id according to calls, 0 for a
\* task not yet created
CallsBefore(calls, id) == IF id \in DOMAIN calls THEN calls[id] ELSE 0

\* C11: a delivery attempt of a notification task starts only when the task's
\* nextRetry is not later than the current time; a failed attempt below the
\* ceiling sets nextRetry to the failure time plus min(1 s * 2^attempts, 30 s),
\* and nextRetry is changed by nothing else, so a retry never starts before
\* that instant.
C11_NoAttemptBeforeGate ==
  [][\A id \in DOMAIN webhooks' :
       /\ sendCalls'[id] > CallsBefore(sendCalls, id) =>
            webhooks'[id].nextRetry <= DateNow
       /\ (id \in DOMAIN webhooks /\ webhooks'[id].attempts # webhooks[id].attempts
             /\ webhooks'[id].attempts < webhooks'[id].maxAttempts) =>
            webhooks'[id].nextRetry =
              DateNow + Min(BackoffBase * 2 ^ webhooks'[id].attempts, BackoffCap)
       /\ (id \in DOMAIN webhooks /\ webhooks'[id].attempts = webhooks[id].attempts) =>
            webhooks'[id].nextRetry \in {webhooks[id].nextRetry, Dec(webhooks[id].nextRetry)}]_vars

\* the second attempt of a notification task is in progress: its backoff of
\* two seconds has passed
C11_Witness ==
  \E id \in SendsInFlight :
    /\ webhooks[id].attempts = 1
    /\ sendCalls[id] = 2
    /\ webhooks[id].nextRetry = DateNow

\* C12: when the drain loop of the notification queue finds the task at the
\* head still in backoff and starts its poll pause, that task stands at the
\* tail of the queue, behind every other stored task.
C12_BackoffTaskToTail ==
  [][\A i \in DOMAIN whLoops' :
       (/\ whLoops' # whLoops
        /\ whLoops'[i].pc = "poll"
        /\ whLoops'[i].timer = PollDelay) =>
         queue'[Len(queue')] = whLoops'[i].webhook]_vars

\* C13: after a failed upload attempt below the ceiling the drain loop pauses
\* for 5 s times the task's attempts; while the pause lasts no upload attempt
\* is in progress and none starts, whatever is stored or enqueued meanwhile.
C13_PauseBlocksUploads ==
  [][/\ \A i \in DOMAIN uploadLoops' :
          (/\ i \in DOMAIN uploadLoops
           /\ uploadLoops[i].pc = "upload"
           /\ uploadLoops'[i].pc = "sleep") =>
            /\ uploadLoops'[i].upload = uploadLoops[i].upload
            /\ uploadLoops'[i].timer =
                 UploadRetryDelay * uploads'[uploadLoops'[i].upload].attempts
     /\ (\E i \in DOMAIN uploadLoops :
           uploadLoops[i].pc = "sleep" /\ uploadLoops[i].timer > 0) =>
          /\ UploadsInFlight = {}
          /\ \A id \in DOMAIN uploadCalls' :
               uploadCalls'[id] = CallsBefore(uploadCalls, id)]_vars

\* the drain loop is part-way through the 10 s pause after the second failure
\* of one task, while another task, never attempted, is stored
C13_Witness ==
  /\ Len(uploadLoops) = 1
  /\ uploadLoops[1].pc = "sleep"
  /\ uploads[uploadLoops[1].upload].attempts = 2
  /\ uploadLoops[1].timer \in 1..(2 * UploadRetryDelay - 1)
  /\ \E id \in Range(uploadQueue) : uploadCalls[id] = 0

\* C14: in each queue, when a task has been attempted, every task enqueued
\* before it has been attempted too and its first attempt is over (it was
\* delivered or counted as failed).
C14_FirstAttemptsInOrder ==
  /\ \A a, b \in DOMAIN uploads :
       (a < b /\ uploadCalls[b] >= 1) =>
         /\ uploadCalls[a] >= 1
         /\ a \in uploaded \/ uploads[a].attempts >= 1
  /\ \A a, b \in DOMAIN webhooks :
       (a < b /\ sendCalls[b] >= 1) =>
         /\ sendCalls[a] >= 1
         /\ a \in sent \/ webhooks[a].attempts >= 1

\* the second upload is in its first attempt after the first, which never
\* failed, was delivered
C14_Witness ==
  /\ Len(uploads) >= 2
  /\ 2 \in UploadsInFlight
  /\ uploadCalls[2] = 1
  /\ 1 \in uploaded
  /\ uploads[1].attempts = 0

Unresolvable(c) == ~s3Initialized \/ GetBucket(sessions[c], config) = NoBucket

\* C16: while no destination can be resolved for a connection, no upload task
\* is created for it, and no call of S3Uploader.upload is ever made without
\* a destination.
C16_UnresolvedNeverEnqueued ==
  [][/\ \A c \in Sessions :
          Unresolvable(c) =>
            \A id \in DOMAIN uploads' :
              uploads'[id].connection = c => id \in DOMAIN uploads
     /\ \A d \in uploadDest' : d[3] # NoBucket]_vars

C18_SavedAfterUpload ==
  \A w \in DOMAIN webhooks :
    webhooks[w].payload.event = "recording_saved" =>
      \E u \in uploaded : uploads[u].connection = webhooks[w].payload.session

\* every call of S3Uploader.upload made for task id had a bucket
AlwaysHadBucket(id) == \A d \in uploadDest : d[1] = id => d[3] # NoBucket

\* C19, as stated: a call of uploadRecording makes one call of performUpload,
\* so an upload task never has more transfers than attempts, and a task
\* dropped after transfers that always failed has as many transfers as
\* attempts, at most 3.
C19_OneTransferPerAttempt ==
  \A id \in DOMAIN uploads :
    /\ transfers[id] <= uploadCalls[id]
    /\ (id \in uploadDropped /\ AlwaysHadBucket(id)) =>
         (transfers[id] = uploadCalls[id] /\ transfers[id] <= UploadMaxAttempts)

\* C19, amended: a call of uploadRecording makes up to 4 calls of
\* performUpload (the first and the 3 retries of the retry wrapper inside
\* S3Uploader.upload), and exactly 4 when every transfer fails; a task with
\* a destination whose transfers always fail is dropped after 3 attempts and
\* 12 transfers; an attempt that has no destination makes no transfer.
C19_WrapperRetriesInsideAttempt ==
  \A id \in DOMAIN uploads :
    /\ transfers[id] <= (WrapperMaxRetries + 1) * uploadCalls[id]
    /\ (id \in uploadDropped /\ AlwaysHadBucket(id)) =>
         /\ uploadCalls[id] = UploadMaxAttempts
         /\ transfers[id] = (WrapperMaxRetries + 1) * UploadMaxAttempts
    /\ (id \notin uploaded /\ id \notin UploadsInFlight /\ AlwaysHadBucket(id)) =>
         transfers[id] = (WrapperMaxRetries + 1) * uploads[id].attempts
    /\ (\A d \in uploadDest : d[1] = id => d[3] = NoBucket) => transfers[id] = 0

\* an upload task that had a bucket at every attempt was dropped after 12
\* failed transfers
C19_Witness ==
  \E id \in uploadDropped :
    /\ AlwaysHadBucket(id)
    /\ transfers[id] = 12
    /\ uploadCalls[id] = 3

\* C20: the file of an upload task is removed only in the step in which its
\* call of uploadRecording resolves, and only when
\* recordings_delete_local_after_upload is set; the file of a task that has
\* failed, is waiting for a retry, or was dropped is in place, and with the
\* option off no file is ever removed.
C20_UnlinkOnlyAfterUpload ==
  [][/\ \A id \in unlinked' \ unlinked :
          /\ config.recordings_delete_local_after_upload
          /\ id \in uploaded' \ uploaded
          /\ id \in UploadsInFlight
     /\ unlinked' \subseteq uploaded'
     /\ unlinked' \cap uploadDropped' = {}
     /\ unlinked' \cap (Range(uploadQueue') \cup UploadsInFlight') = {}
     /\ ~config.recordings_delete_local_after_upload => unlinked' = {}]_vars

\* with the option on, the file of a task was left in place by a failed
\* attempt and removed after the retry that delivered it
C20_Witness ==
  \E id \in unlinked :
    /\ uploads[id].attempts >= 1
    /\ id \in uploaded
    /\ config.recordings_delete_local_after_upload

\* ---- no delivery failure leaves the delivery subsystem ---------------------

\* C30: a failed attempt is handled inside the drain loop.  The step that
\* abandons a task ends in the loop itself: the activation that dropped the
\* task goes on to the task now at the head of the queue (an attempt, or for
\* a notification still in backoff the poll pause), or, the queue being
\* empty, returns with the draining flag reset; the dropped task is on no
\* queue and in no activation.  A draining flag that is set belongs to a
\* live activation, so no loop was ended by an error, and the session
\* handlers end in their own return or catch block.
C30_FailureStaysInside ==
  /\ [](uploadLoops = <<>> => ~rmProcessing)
  /\ [](whLoops = <<>> => ~whProcessing)
  /\ [][\A id \in uploadDropped' \ uploadDropped :
          /\ id \notin Range(uploadQueue') \cup UploadsInFlight'
          /\ IF uploadQueue = <<>>
             THEN uploadLoops' = <<>> /\ ~rmProcessing'
             ELSE /\ uploadLoops' = <<[pc |-> "upload", upload |-> Head(uploadQueue),
                                      timer |-> 0]>>
                  /\ uploadCalls'[Head(uploadQueue)] = uploadCalls[Head(uploadQueue)] + 1
                  /\ rmProcessing']_vars
  /\ [][\A id \in sendDropped' \ sendDropped :
          /\ id \notin Range(queue') \cup SendsInFlight'
          /\ IF queue = <<>>
             THEN whLoops' = <<>> /\ ~whProcessing'
             ELSE /\ Len(whLoops') = 1
                  /\ whLoops'[1].webhook = Head(queue)
                  /\ whLoops'[1].pc \in {"send", "poll"}
                  /\ whProcessing']_vars

\* an upload task was abandoned, the loop that dropped it went on, delivered
\* another task and returned with the flag reset
C30_Witness ==
  /\ uploadDropped # {}
  /\ \E id \in uploaded : \E d \in uploadDropped : id > d
  /\ uploadLoops = <<>>
  /\ ~rmProcessing
  /\ uploadQueue = <<>>

\* ---- bucket resolution -----------------------------------------------------

\* C27: every bucket that was resolved, for an upload attempt or for a
\* recording_saved notification, is the bucket of the token of its connection
\* when the token has one, whatever the default bucket is, and the default
\* bucket of the configuration otherwise; handleSessionClose ends in its catch
\* block, getBucket having thrown, exactly when the connection has no bucket
\* in its token and the configuration has no default bucket.
C27_OverrideThenDefault ==
  /\ [](\A d \in uploadDest :
          (d[3] # NoBucket /\ sessions[uploads[d[1]].connection].tokenBucket # NoBucket)
            => d[3] = sessions[uploads[d[1]].connection].tokenBucket)
  /\ [](\A w \in DOMAIN webhooks :
          webhooks[w].payload.event = "recording_saved" =>
            /\ webhooks[w].payload.bucket # NoBucket
            /\ sessions[webhooks[w].payload.session].tokenBucket # NoBucket
                 => webhooks[w].payload.bucket = sessions[webhooks[w].payload.session].tokenBucket)
  /\ [][/\ \A d \in uploadDest' \ uploadDest :
             (d[3] # NoBucket /\ sessions[uploads'[d[1]].connection].tokenBucket = NoBucket)
               => d[3] = config.s3_default_bucket
        /\ \A w \in DOMAIN webhooks' \ DOMAIN webhooks :
             (/\ webhooks'[w].payload.event = "recording_saved"
              /\ sessions[webhooks'[w].payload.session].tokenBucket = NoBucket)
               => webhooks'[w].payload.bucket = config.s3_default_bucket
        /\ \A c \in Sessions :
             sessions[c].pc = "compress" /\ sessions'[c].pc # "compress" /\ uploads' # uploads
               => (sessions'[c].pc = "caught"
                     <=> (sessions[c].tokenBucket = NoBucket
                            /\ config.s3_default_bucket = NoBucket))]_vars

\* a connection with a bucket in its token, on a server with a default
\* bucket: its upload attempt and its recording_saved notification have the
\* bucket of the token
C27_Witness ==
  \E d \in uploadDest : \E w \in DOMAIN webhooks :
    /\ config.s3_default_bucket # NoBucket
    /\ sessions[uploads[d[1]].connection].tokenBucket = "bucketT"
    /\ d[3] = "bucketT"
    /\ webhooks[w].payload.event = "recording_saved"
    /\ webhooks[w].payload.session = uploads[d[1]].connection
    /\ webhooks[w].payload.bucket = "bucketT"

\* ---- notifications disabled ------------------------------------------------

\* C23: on a server whose configuration has webhook_enable off or no
\* webhook_url, sendSessionStarted, sendSessionEnded and sendRecordingSaved
\* create no task: the notification queue is empty, the draining flag is
\* false, no activation of processQueue exists and sendWebhook was never
\* called.
C23_DisabledSendsNothing ==
  (~config.webhook_enable \/ config.webhook_url = NoUrl) =>
    /\ queue = <<>>
    /\ ~whProcessing
    /\ webhooks = <<>>
    /\ whLoops = <<>>
    /\ sendCalls = <<>>
    /\ sendUrl = {}

\* with notifications disabled a session was closed and its recording queued
\* for upload: handleSessionClose has called sendSessionEnded and
\* sendRecordingSaved
C23_Witness ==
  /\ ~config.webhook_enable \/ config.webhook_url = NoUrl
  /\ \E c \in Sessions :
       /\ sessions[c].pc = "closed"
       /\ \E id \in DOMAIN uploads : uploads[id].connection = c

\* ---- handleRecordingEnd ----------------------------------------------------

\* C24: a call of handleRecordingEnd creates one upload task, which is then
\* on the queue or in its first attempt, when the recording file exists, the
\* storage is 's3' and the manager has an uploader, and returns the path; in
\* every other case it creates none: for a missing file it returns null, and
\* for storage 'local' the upload queue stays empty.  No upload task is
\* created in any other step.
C24_OneUploadPerRecording ==
  /\ [](config.recordings_storage = "local" => uploadQueue = <<>> /\ uploads = <<>>)
  /\ [][/\ \A c \in Sessions :
             (sessions[c].returned = "none" /\ sessions'[c].returned # "none") =>
               /\ sessions'[c].returned =
                    IF sessions[c].recordingExists THEN "path" ELSE "null"
               /\ IF /\ sessions[c].recordingExists
                     /\ config.recordings_storage = "s3"
                     /\ s3Uploader
                  THEN /\ Len(uploads') = Len(uploads) + 1
                       /\ uploads'[Len(uploads')].connection = c
                       /\ uploads'[Len(uploads')].attempts = 0
                       /\ Len(uploads') \in Range(uploadQueue') \cup UploadsInFlight'
                  ELSE /\ Len(uploads') = Len(uploads)
                       /\ uploadQueue' = uploadQueue
        /\ Len(uploads') # Len(uploads) =>
             \E c \in Sessions : sessions[c].returned = "none" /\ sessions'[c].returned = "path"]_vars

\* handleRecordingEnd has returned the path of an existing recording and its
\* one upload task exists
C24_Witness ==
  \E c \in Sessions :
    /\ sessions[c].returned = "path"
    /\ sessions[c].pc = "ended"
    /\ config.recordings_storage = "s3"
    /\ Len(uploads) = 1
    /\ uploads[1].connection = c

\* ---- HTTP status of a notification attempt ---------------------------------

\* C25: an attempt whose request was answered with a status outside 200..299
\* fails just as one whose request was not answered: the attempts of the task
\* are incremented, and the task is back on the queue with its backoff set
\* while attempts is below the ceiling, and dropped else; it is not marked
\* as sent.  Only a status of 200..299 delivers the task, and leaves its
\* attempts as they were.
C25_Non2xxIsFailure ==
  [][lastResponse' # lastResponse =>
       LET id == lastResponse'.webhook
           status == lastResponse'.status
       IN IF status \in 200..299
          THEN /\ id \in sent'
               /\ webhooks'[id] = webhooks[id]
               /\ id \notin Range(queue') \cup sendDropped'
          ELSE /\ id \notin sent' \ sent
               /\ webhooks'[id].attempts = webhooks[id].attempts + 1
               /\ IF webhooks'[id].attempts < webhooks[id].maxAttempts
                  THEN /\ id \in Range(queue') \cup SendsInFlight'
                       /\ id \notin sendDropped'
                       /\ webhooks'[id].nextRetry =
                            Min(BackoffBase * 2 ^ webhooks'[id].attempts, BackoffCap)
                  ELSE /\ id \in sendDropped'
                       /\ id \notin Range(queue') \cup SendsInFlight'
                       /\ webhooks'[id].nextRetry = webhooks[id].nextRetry]_vars

\* the third request of a task was answered with 404 and the task was dropped
C25_Witness ==
  /\ lastResponse.status = 404
  /\ lastResponse.call = WebhookMaxAttempts
  /\ lastResponse.webhook \in sendDropped
  /\ webhooks[lastResponse.webhook].attempts = WebhookMaxAttempts

\* ---- compressRecording -----------------------------------------------------

\* C21: with no format or format 'none' compressRecording returns the input
\* path, starts no transform and leaves the directory as it was.  With
\* format 'gzip' or 'zip' it returns the input path with '.gz' or '.zip'
\* appended when the transform and the removal of the input succeeded, and
\* the input path otherwise; the input file is removed only in a step that
\* follows the one in which the output was written to its end, and the
\* output file exists then.
C21_InputRemovedAfterOutput ==
  /\ [](\A r \in Recordings :
          config.recordings_compression_format \in {"", "none"} =>
            /\ compress[r].pc \in {"idle", "returned"}
            /\ compress[r].transforms = 0
            /\ compress[r].pc = "returned" => compress[r].returned = [recording |-> r, ext |-> ""]
            /\ files = {[recording |-> q, ext |-> ""] : q \in Recordings})
  /\ [](\A r \in Recordings :
          (config.recordings_compression_format \in {"gzip", "zip"}
             /\ compress[r].pc = "returned") =>
            compress[r].returned =
              IF compress[r].failed
              THEN [recording |-> r, ext |-> ""]
              ELSE [recording |-> r,
                    ext |-> IF config.recordings_compression_format = "gzip"
                            THEN ".gz" ELSE ".zip"])
  /\ [][\A r \in Recordings :
          (/\ config.recordings_compression_format \in {"gzip", "zip"}
           /\ [recording |-> r, ext |-> ""] \in files
           /\ [recording |-> r, ext |-> ""] \notin files') =>
            /\ compress[r].finished
            /\ compress[r].transforms = 1
            /\ \E p \in files' : p.recording = r /\ p.ext \in {".gz", ".zip"}
            /\ compress'[r].returned \in files']_vars

\* a recording was compressed with 'zip': its input is gone, its '.zip' file
\* exists and is the path returned
C21_Witness ==
  \E r \in Recordings :
    /\ config.recordings_compression_format = "zip"
    /\ compress[r].pc = "returned"
    /\ compress[r].returned = [recording |-> r, ext |-> ".zip"]
    /\ compress[r].returned \in files
    /\ InputPath(r) \notin files

\* C22: compressRecording ends with a return, never with an error that leaves
\* it; the path it returns is the path of a file that exists; and when a step
\* of the compression failed, the path returned is the input path and the
\* input file exists.
C22_ReturnsExistingPath ==
  \A r \in Recordings :
    /\ compress[r].pc # "uncaught"
    /\ compress[r].pc = "returned" => compress[r].returned \in files
    /\ (compress[r].pc = "returned" /\ compress[r].failed) =>
         /\ compress[r].returned = InputPath(r)
         /\ InputPath(r) \in files

\* ---- createRetryWrapper ----------------------------------------------------

\* C29: a call of the wrapped function calls fn at most maxRetries + 1
\* times.  It returns the result of the first call of fn that succeeds and
\* calls fn no more; every call after the first is made when exactly
\* baseDelay * 2^k has passed since call k + 1 failed (k = 0 for the first
\* call); and it rejects only when maxRetries + 1 calls have failed, with
\* the error of the last of them.
C29_RetriesWithDoublingPause ==
  /\ [](/\ wrapper.calls <= wrapper.maxRetries + 1
        /\ wrapper.pc = "resolved" =>
             /\ wrapper.result = wrapper.calls
             /\ Len(wrapper.errors) = wrapper.calls - 1
        /\ wrapper.pc = "rejected" =>
             /\ wrapper.calls = wrapper.maxRetries + 1
             /\ Len(wrapper.errors) = wrapper.calls
             /\ wrapper.thrown = wrapper.errors[wrapper.calls])
  /\ [][/\ (wrapper'.calls # wrapper.calls) =>
             /\ wrapper'.calls = wrapper.calls + 1
             /\ Len(wrapper.errors) = wrapper.calls
             /\ wrapper.calls >= 1 =>
                  wrapper.waited = wrapper.baseDelay * 2 ^ (wrapper.calls - 1)
        /\ wrapper.pc \in {"resolved", "rejected"} => wrapper' = wrapper]_vars

\* with maxRetries 3, four calls have failed, each after the pause due, and
\* the call was rejected with the error of the fourth, which is not the error
\* of the first
C29_Witness ==
  /\ wrapper.pc = "rejected"
  /\ wrapper.maxRetries = 3
  /\ wrapper.calls = 4
  /\ wrapper.errors[1] = "e1"
  /\ wrapper.thrown = "e2"
  /\ wrapper.waited = wrapper.baseDelay * 4

\* ---- sanitizeWebhookPayload ------------------------------------------------

\* out is the value in with, at every depth, '[REDACTED]' as the value of the
\* keys 'Token' and 'my_api_key2' and every other value that is no object
\* as it was
RECURSIVE DeepRedacted(_, _)
DeepRedacted(in, out) ==
  IF in.type # "object"
  THEN out = in
  ELSE /\ out.type = "object"
       /\ DOMAIN out.obj = DOMAIN in.obj
       /\ \A key \in DOMAIN in.obj :
            IF key \in {KeyToken, KeyApiKey}
            THEN out.obj[key] = [type |-> "string", str |-> "[REDACTED]", obj |-> <<>>]
            ELSE DeepRedacted(in.obj[key], out.obj[key])

\* C26: what sanitizeWebhookPayload returns for a payload has the keys of the
\* payload; at every depth a key whose name in lower case contains a word of
\* the list has the value '[REDACTED]' and every other key its value, itself
\* sanitized if it is an object; and sanitizing the result again returns an
\* equal value.  A value that is no object is returned as it is.
C26_DeepAndIdempotent ==
  (call.fn = "sanitizeWebhookPayload" /\ call.result.called) =>
    /\ DeepRedacted(call.args, call.result.once)
    /\ call.result.twice = call.result.once

\* a payload three levels deep, with a sensitive key and a plain key at the
\* innermost level and a sensitive key beside an object, was sanitized
C26_Witness ==
  /\ call.fn = "sanitizeWebhookPayload"
  /\ call.result.called
  /\ call.depth = 3
  /\ call.args # call.result.once
  /\ \E k1, k2 \in {KeyUserId, KeyPass} :
       /\ k1 \in DOMAIN call.args.obj
       /\ KeyToken \in DOMAIN call.args.obj
       /\ call.args.obj[k1].type = "object"
       /\ k2 \in DOMAIN call.args.obj[k1].obj
       /\ call.args.obj[k1].obj[k2].type = "object"
       /\ DOMAIN call.args.obj[k1].obj[k2].obj = {KeyApiKey, KeyUserId}
       /\ call.result.once.obj[k1].obj[k2].obj[KeyApiKey].str = "[REDACTED]"
       /\ call.result.once.obj[k1].obj[k2].obj[KeyUserId].str = "visible"

\* ---- key templating --------------------------------------------------------

\* the key the pieces stand for when every token that names the file or a
\* field of meta is replaced by its value and every other token is left as
\* it is written
RECURSIVE Interpolated(_, _, _)
Interpolated(pieces, meta, filename) ==
  IF pieces = <<>>
  THEN ""
  ELSE (IF Head(pieces).kind = "text"
        THEN Head(pieces).text
        ELSE IF Head(pieces).text = "filename"
             THEN filename
             ELSE IF Head(pieces).text \in DOMAIN meta
                  THEN meta[Head(pieces).text].str
                  ELSE "{{" \o Head(pieces).text \o "}}")
       \o Interpolated(Tail(pieces), meta, filename)

\* C28: the key generated from a template has, for every token {{name}}, the
\* base name of the artifact when name is 'filename', the value of the field
\* when the metadata of the connection have a field of that name, and the
\* token as written otherwise; 'recordings/{{userId}}/{{filename}}' with
\* userId 'u1' and artifact test.guac gives 'recordings/u1/test.guac'.
C28_EveryTokenInterpolated ==
  (call.fn = "generateS3Key" /\ call.called /\ call.template # <<>>) =>
    /\ call.result = Interpolated(call.template, call.meta, "test.guac")
    /\ (/\ call.template = <<[kind |-> "text", text |-> "recordings/"],
                             [kind |-> "token", text |-> "userId"],
                             [kind |-> "text", text |-> "/"]>>
        /\ "userId" \in DOMAIN call.meta
        /\ call.meta["userId"].str = "u1")
         => call.result = "recordings/u1/"

\* ---- enqueue in any state of the queue -------------------------------------

\* C31: queueWebhook and queueForUpload can be called whatever their queue is
\* doing (idle, draining, pausing, mid-attempt), in every state in which a
\* behaviour has not yet created its MaxTasks tasks: the call returns at once.  It
\* creates exactly one task, with attempts 0 (and nextRetry now), leaves the
\* task objects already there as they were, and puts the new task at the
\* tail: the queue is the old one with the new task appended, less its head
\* when the drain attempt the call triggers took it for an attempt.  After the
\* call a drain loop is active, and the other queue has not moved.
C31_EnqueueAlwaysSafe ==
  /\ [](TasksCreated < MaxTasks => (ENABLED QueueWebhook /\ ENABLED QueueForUpload))
  /\ [][/\ Len(webhooks') # Len(webhooks) =>
             LET id == Len(webhooks) + 1
                 pushed == Append(queue, id)
             IN /\ Len(webhooks') = id
                /\ SubSeq(webhooks', 1, Len(webhooks)) = webhooks
                /\ webhooks'[id].attempts = 0
                /\ webhooks'[id].nextRetry = DateNow
                /\ sendCalls'[id] \in {0, 1}
                /\ \/ /\ queue' = pushed
                      /\ SendsInFlight' = SendsInFlight
                   \/ /\ queue' = Tail(pushed)
                      /\ SendsInFlight = {}
                      /\ SendsInFlight' = {Head(pushed)}
                /\ whProcessing'
                /\ Len(whLoops') = 1
                /\ UNCHANGED <<sent, sendDropped, rmVars>>
        /\ Len(uploads') # Len(uploads) =>
             LET id == Len(uploads) + 1
                 pushed == Append(uploadQueue, id)
             IN /\ Len(uploads') = id
                /\ SubSeq(uploads', 1, Len(uploads)) = uploads
                /\ uploads'[id].attempts = 0
                /\ uploadCalls'[id] \in {0, 1}
                /\ \/ /\ uploadQueue' = pushed
                      /\ UploadsInFlight' = UploadsInFlight
                   \/ /\ uploadQueue' = Tail(pushed)
                      /\ UploadsInFlight = {}
                      /\ UploadsInFlight' = {Head(pushed)}
                /\ rmProcessing'
                /\ Len(uploadLoops') = 1
                /\ UNCHANGED <<uploaded, uploadDropped, whVars>>]_vars

\* an upload was enqueued during the retry pause of the drain loop: it stands
\* behind the task that failed and was put back before it came
C31_Witness ==
  /\ uploadQueue = <<1, 2>>
  /\ uploads[1].attempts = 1
  /\ uploads[2].attempts = 0
  /\ uploadCalls[2] = 0
  /\ Len(uploadLoops) = 1
  /\ uploadLoops[1].pc = "sleep"

\* ---- the authorization of a notification request ---------------------------

\* C32, as stated: the mode alone decides.  Under mode 'bearer' the request
\* has the header Authorization: Bearer <token> and no credentials, under
\* mode 'basic' it has the username/password pair, and under any other mode,
\* or none, it has neither an Authorization header nor credentials.
C32_AuthDecidedByMode ==
  (call.fn = "sendWebhook" /\ call.called) =>
    LET cfg == call.config
        options == call.options
    IN /\ cfg.webhook_auth_type = Value("bearer") =>
            /\ "Authorization" \in DOMAIN options.headers
            /\ options.headers["Authorization"] = "Bearer " \o cfg.webhook_auth_token.str
            /\ options.auth = NoAuth
       /\ cfg.webhook_auth_type = Value("basic") =>
            options.auth = [username |-> cfg.webhook_auth_username,
                            password |-> cfg.webhook_auth_password]
       /\ cfg.webhook_auth_type \notin {Value("bearer"), Value("basic")} =>
            /\ "Authorization" \notin DOMAIN options.headers
            /\ options.auth = NoAuth

\* C32, amended: the mode decides together with the credentials configured
\* for it.  Mode 'bearer' with a token set attaches the one header
\* Authorization: Bearer <token>, replacing any Authorization of the section
\* webhook_headers, and no credentials; mode 'basic' with both a username and
\* a password set attaches that pair and no header.  In every other case
\* (mode none, unknown or absent, or a mode whose token, username or password
\* is not set) sendWebhook attaches no credentials and no header of its own.
\* The headers it does not attach itself are those of the options literal
\* with the section webhook_headers copied over them, so the request then
\* has an Authorization header exactly when that section names one.
C32_AuthByModeAndCredentials ==
  (call.fn = "sendWebhook" /\ call.called) =>
    LET cfg == call.config
        options == call.options
        custom == IF cfg.webhook_headers = Undefined
                  THEN <<>>
                  ELSE cfg.webhook_headers.fields
        bearer == /\ cfg.webhook_auth_type = Value("bearer")
                  /\ cfg.webhook_auth_token \notin {Undefined, [type |-> "number", str |-> "0"]}
        basic == /\ cfg.webhook_auth_type = Value("basic")
                 /\ cfg.webhook_auth_username # Undefined
                 /\ cfg.webhook_auth_password # Undefined
    IN /\ DOMAIN options.headers =
            {"Content-Type", "User-Agent"} \cup DOMAIN custom
              \cup (IF bearer THEN {"Authorization"} ELSE {})
       /\ \A name \in DOMAIN options.headers :
            options.headers[name] =
              IF bearer /\ name = "Authorization"
              THEN "Bearer " \o cfg.webhook_auth_token.str
              ELSE IF name \in DOMAIN custom
                   THEN custom[name]
                   ELSE BaseHeaders[name]
       /\ options.auth = IF basic
                         THEN [username |-> cfg.webhook_auth_username,
                               password |-> cfg.webhook_auth_password]
                         ELSE NoAuth

\* a request was built under mode 'bearer' without a token, for a
\* configuration whose section webhook_headers names no Authorization: it
\* has no Authorization header
C32_Witness ==
  /\ call.fn = "sendWebhook"
  /\ call.called
  /\ call.config.webhook_auth_type = Value("bearer")
  /\ call.config.webhook_auth_token = Undefined
  /\ "Authorization" \notin DOMAIN call.options.headers
  /\ call.options.auth = NoAuth

\* ---- the backoff of the notification queue ---------------------------------

\* C33: the k-th failure of a notification task that leaves it below its
\* ceiling sets its nextRetry to the failure time plus
\* min(1000 ms * 2^k, 30000 ms), k being its attempts after the increment; the
\* backoff never exceeds the cap of 30000 ms and never decreases from one
\* failure of the task to the next; a failure at the ceiling sets none.
C33_BackoffDoublesToCap ==
  call.fn = "backoff" =>
    /\ \A k \in DOMAIN call.delays :
         /\ call.delays[k] = Min(BackoffBase * 2 ^ k, BackoffCap)
         /\ call.delays[k] <= BackoffCap
         /\ k > 1 => call.delays[k] >= call.delays[k - 1]
    /\ Len(call.delays) = IF WhMayRetry(webhooks[1])
                          THEN webhooks[1].attempts
                          ELSE webhooks[1].attempts - 1

\* a task has failed six times: its backoff was 16 s after the fourth failure
\* and has stood at the cap of 30 s since the fifth
C33_Witness ==
  /\ call.fn = "backoff"
  /\ Len(call.delays) = 6
  /\ call.delays[4] = 16
  /\ call.delays[5] = BackoffCap
  /\ call.delays[6] = BackoffCap

\* ---- the end of a drain loop -----------------------------------------------

C35_StoredTaskHasLoop ==
  /\ uploadQueue # <<>> => (rmProcessing /\ Len(uploadLoops) = 1)
  /\ queue # <<>> => (whProcessing /\ Len(whLoops) = 1)

\* each queue holds a task while its loop is suspended: the upload queue the
\* task that failed, during the retry pause, the notification queue a task
\* not yet attempted, during the attempt of an earlier one
C35_Witness ==
  /\ uploadQueue # <<>>
  /\ Len(uploadLoops) = 1 /\ uploadLoops[1].pc = "sleep"
  /\ \E id \in Range(queue) : sendCalls[id] = 0
  /\ Len(whLoops) = 1 /\ whLoops[1].pc = "send"

\* ---- the four conditions of a task -------------------------------------------

\* the number of places of queue q that hold task id
Stored(q, id) == Cardinality({k \in DOMAIN q : q[k] = id})

\* the number of activations of ls that are at position pc with task id,
\* which they hold in their field key
Attempting(ls, pc, key, id) ==
  Cardinality({k \in DOMAIN ls : ls[k].pc = pc /\ ls[k][key] = id})

\* the number of the four conditions task id is in: stored s times, in a
\* attempts, delivered, abandoned
Conditions(s, a, delivered, abandoned) ==
  (IF s > 0 THEN 1 ELSE 0) + (IF a > 0 THEN 1 ELSE 0)
    + (IF delivered THEN 1 ELSE 0) + (IF abandoned THEN 1 ELSE 0)

\* C36: every task that was enqueued is in exactly one of four conditions:
\* stored in its queue, being attempted (and then not in the queue),
\* delivered, or abandoned.  It is never stored twice, never in two attempts
\* at a time, and no attempt of it starts once it is delivered or abandoned.
C36_ExactlyOneCondition ==
  /\ [](\A id \in DOMAIN uploads :
          /\ Stored(uploadQueue, id) <= 1
          /\ Attempting(uploadLoops, "upload", "upload", id) <= 1
          /\ Conditions(Stored(uploadQueue, id), Attempting(uploadLoops, "upload", "upload", id),
                        id \in uploaded, id \in uploadDropped) = 1)
  /\ [](\A id \in DOMAIN webhooks :
          /\ Stored(queue, id) <= 1
          /\ Attempting(whLoops, "send", "webhook", id) <= 1
          /\ Conditions(Stored(queue, id), Attempting(whLoops, "send", "webhook", id),
                        id \in sent, id \in sendDropped) = 1)
  /\ [][/\ \A id \in DOMAIN uploads :
             id \in uploaded \cup uploadDropped => uploadCalls'[id] = uploadCalls[id]
        /\ \A id \in DOMAIN webhooks :
             id \in sent \cup sendDropped => sendCalls'[id] = sendCalls[id]]_vars

\* three notifications: the first abandoned at its ceiling, the second being
\* attempted, the third stored
C36_Witness ==
  /\ Len(webhooks) = 3
  /\ 1 \in sendDropped
  /\ Attempting(whLoops, "send", "webhook", 2) = 1
  /\ queue = <<3>>

\* ---- a failed unlink after an upload ---------------------------------------

\* C37: when S3Uploader.upload has resolved for a task and the removal of
\* the local file, asked for by the configuration, fails, the attempt is a
\* delivery: in that step the task's attempts do not change and the task is
\* neither stored nor in an attempt afterwards; and from then on no call of
\* uploadRecording and no transfer is made for it, and it is never abandoned.
C37_UnlinkFailureIsDelivery ==
  [][\A id \in DOMAIN uploads :
       /\ (/\ id \in uploaded' \ uploaded
           /\ DeletesLocal(config)
           /\ id \notin unlinked') =>
            /\ uploads'[id] = uploads[id]
            /\ Stored(uploadQueue', id) = 0
            /\ Attempting(uploadLoops', "upload", "upload", id) = 0
            /\ id \notin uploadDropped'
       /\ id \in uploaded =>
            /\ id \in uploaded'
            /\ uploads'[id] = uploads[id]
            /\ uploadCalls'[id] = uploadCalls[id]
            /\ transfers'[id] = transfers[id]
            /\ Stored(uploadQueue', id) = 0
            /\ id \notin uploadDropped']_vars

\* the file of a task delivered at its first attempt is still in place
\* although the configuration asks for its removal: the unlink failed; the
\* drain loop has ended since, with one call and one transfer made
C37_Witness ==
  \E id \in uploaded :
    /\ DeletesLocal(config)
    /\ id \notin unlinked
    /\ uploads[id].attempts = 0
    /\ uploadCalls[id] = 1
    /\ transfers[id] = 1
    /\ uploadLoops = <<>>
    /\ ~rmProcessing

\* ---- the order of the notifications of a session ---------------------------

\* the notification tasks of event for the session of connection c
EventsOf(event, c) ==
  {w \in DOMAIN webhooks :
     webhooks[w].payload.event = event /\ webhooks[w].payload.session = c}

C39_FinishedCloseLeavesMap ==
  \A c \in Sessions :
    sessions[c].pc \in {"closed", "caught"} => ~sessions[c].inMap

\* ---- the destination named by recording_saved ------------------------------

\* C40: the bucket and the key handleSessionClose reports in the
\* recording_saved notification of a recording are the bucket and the key
\* S3Uploader.upload uploads the recording to, for every key template and
\* every connection.
C40_SavedNamesUploadDestination ==
  (/\ call.fn = "generateS3Key"
   /\ call.saved # NoSaved
   /\ call.upload # NoSaved) =>
     /\ call.saved.bucket = call.upload.bucket
     /\ call.saved.key = call.upload.key

====
